---- MODULE Spec2Model ----
(***************************************************************************)
(* Bike / component management service: the relational store (bikes and    *)
(* components tables), the advisory cache, the Bike and Component services *)
(* and the HTTP handlers that call them.  Every request runs on its own    *)
(* worker; a worker's step is one call to storage or to the cache together *)
(* with the local code around it.                                          *)
(***************************************************************************)
EXTENDS Integers, Sequences, FiniteSets, TLC

VARIABLES
    bikes,       \* the bikes table: bike_id -> row, defined on the stored ids
    components,  \* the components table: id -> row, defined on the stored ids
    cache,       \* the cache: key -> bytes, defined on the keys that are set
    cacheSrc,    \* per set key: the stored rows of that bike when the key was set
    clock,       \* CURRENT_TIMESTAMP of the store
    issued,      \* the identities that are in use or were handed out by uuid.New()
    req,         \* per worker: the request it serves and where it stands in it
    nreq,        \* requests started so far
    ledger       \* history: each bike's owner, each component's bike, a failed invalidation

vars == <<bikes, components, cache, cacheSrc, clock, issued, req, nreq, ledger>>

(***************************************************************************)
(* Bounds of the model.                                                    *)
(***************************************************************************)
MaxRequests == 3

Workers == {"w1", "w2"}
BikeIds == {1, 2}
ComponentIds == {1, 2}
Users == {1, 2}

\* uuid.Nil and the zero time.Time; identities and times proper are positive
NilUUID == 0
ZeroTime == 0

(***************************************************************************)
(* Domain model.                                                           *)
(***************************************************************************)
BikeTypes == {"bmx", "mtb", "road"}
ComponentNames == {"handlebars", "frame", "wheels"}
Admin == "admin"
AppUser == "appuser"

ZeroBike ==
    [user_id |-> NilUUID, bike_id |-> NilUUID, bike_name |-> "", type |-> "",
     model |-> "", components |-> <<>>, year |-> 0, mileage |-> 0,
     created_at |-> ZeroTime, updated_at |-> ZeroTime]

ZeroComponent ==
    [id |-> NilUUID, bike_id |-> NilUUID, name |-> "", brand |-> "", model |-> "",
     installed_at |-> ZeroTime, installed_mileage |-> 0, max_mileage |-> 0,
     created_at |-> ZeroTime, updated_at |-> ZeroTime]

MaxMileageMin == 1
MaxMileageMax == 1000000
MaxTextLen == 100

CurrentMileage(c, bikeMileage) == bikeMileage - c.installed_mileage

\* a component due only once it is past its max_mileage
NeedsReplacementStrict(c, bikeMileage) == CurrentMileage(c, bikeMileage) > c.max_mileage

NeedsReplacement(c, bikeMileage) == CurrentMileage(c, bikeMileage) >= c.max_mileage

\* validator.Struct on a Bike: the struct carries no validate tags.
ValidateBike(b) == TRUE

\* a validator that accepts every component
ValidateComponentSkipped(c) == TRUE

\* validator.Struct on a Component, tag by tag.
ValidateComponent(c) ==
    /\ c.bike_id # NilUUID
    /\ c.name # ""
    /\ Len(c.brand) <= MaxTextLen
    /\ Len(c.model) <= MaxTextLen
    /\ c.installed_at # ZeroTime
    /\ c.installed_mileage >= 0
    /\ c.max_mileage # 0
    /\ c.max_mileage >= MaxMileageMin
    /\ c.max_mileage <= MaxMileageMax

(***************************************************************************)
(* Identifier strings.  A string is <<form, n>>: the canonical 36-character *)
(* text of uuid n, the same text in upper case, or text that is no uuid.    *)
(***************************************************************************)
IdForms == {"canon", "upper"}
BadId == <<"bad", 0>>
EmptyId == <<"", 0>>

\* uuid.Parse
UUIDParse(s) == [err |-> s[1] \notin IdForms, uuid |-> IF s[1] \in IdForms THEN s[2] ELSE NilUUID]

\* uuid.UUID.String
UUIDString(u) == <<"canon", u>>

\* fmt.Sprintf("bike:%s", s)
CacheKey(s) == <<"bike:", s[1], s[2]>>

(***************************************************************************)
(* encoding/json on a Bike.                                                *)
(***************************************************************************)
FormatTime(t) == <<"rfc3339", t>>
ParseTime(s) == s[2]

JSONMarshalBike(b) ==
    [user_id |-> UUIDString(b.user_id), bike_id |-> UUIDString(b.bike_id),
     bike_name |-> b.bike_name, type |-> b.type, model |-> b.model,
     components |-> b.components, year |-> b.year, mileage |-> b.mileage,
     created_at |-> FormatTime(b.created_at), updated_at |-> FormatTime(b.updated_at)]

JSONUnmarshalBike(data) ==
    LET u == UUIDParse(data.user_id)
        i == UUIDParse(data.bike_id)
    IN  [err |-> u.err \/ i.err,
         bike |-> [user_id |-> u.uuid, bike_id |-> i.uuid,
                   bike_name |-> data.bike_name, type |-> data.type,
                   model |-> data.model, components |-> data.components,
                   year |-> data.year, mileage |-> data.mileage,
                   created_at |-> ParseTime(data.created_at),
                   updated_at |-> ParseTime(data.updated_at)]]

(***************************************************************************)
(* Relational store.  A repository call is one SQL statement: it returns    *)
(* the error (the empty string for nil), the entity scanned back and the    *)
(* tables after the statement.                                              *)
(***************************************************************************)
Without(f, ks) == [k \in DOMAIN f \ ks |-> f[k]]
With(f, k, v) == [x \in DOMAIN f \cup {k} |-> IF x = k THEN v ELSE f[x]]

\* A bikes row: the bike's columns.
BikeRow(b) ==
    [user_id |-> b.user_id, bike_id |-> b.bike_id, bike_name |-> b.bike_name,
     type |-> b.type, model |-> b.model, year |-> b.year, mileage |-> b.mileage,
     created_at |-> b.created_at, updated_at |-> b.updated_at]

\* rows.Scan of all bike columns into a fresh domain.Bike
ScanBike(row) ==
    [user_id |-> row.user_id, bike_id |-> row.bike_id, bike_name |-> row.bike_name,
     type |-> row.type, model |-> row.model, components |-> <<>>, year |-> row.year,
     mileage |-> row.mileage, created_at |-> row.created_at,
     updated_at |-> row.updated_at]

\* CHECK (type IN ('bmx', 'mtb', 'road'))
BikesCheck(row) == row.type \in BikeTypes

\* CHECK (name IN ('handlebars', 'frame', 'wheels'))
ComponentsCheck(row) == row.name \in ComponentNames

\* a components table without fk_bike
FkBikeUnchecked(row, bikeTable) == TRUE

\* CONSTRAINT fk_bike FOREIGN KEY (bike_id) REFERENCES bikes(bike_id)
FkBike(row, bikeTable) == row.bike_id \in DOMAIN bikeTable

\* ON DELETE CASCADE of fk_bike: the components a deleted bike takes with it
CascadeOf(bikeId, compTable) == {c \in DOMAIN compTable : compTable[c].bike_id = bikeId}

\* a SET clause that stores the parameter as it comes, zero or not
CoalesceStoresZero(v, zero, old) == v

\* COALESCE(NULLIF($n, zero), column)
Coalesce(input, zero, stored) == IF input = zero THEN stored ELSE input

\* the foreign keys of a bikes row: the table declares none, user_id is a
\* plain UUID NOT NULL column, so no INSERT violates one (pq 23503)
BikesForeignKeys(row) == TRUE

\* an INSERT ... ON CONFLICT (bike_id) DO UPDATE: a row of the same identity
\* is replaced
BikeRepoCreateBikeUpsert(bike, bikeTable, now) ==
    LET row == [BikeRow(bike) EXCEPT !.created_at = now, !.updated_at = now]
    IN  IF ~BikesCheck(row)
        THEN [err |-> "pq: check violation", bike |-> bike, bikes |-> bikeTable]
        ELSE [err |-> "",
              bike |-> [bike EXCEPT !.created_at = now, !.updated_at = now],
              bikes |-> With(bikeTable, bike.bike_id, row)]

BikeRepoCreateBike(bike, bikeTable, now) ==
    LET row == [BikeRow(bike) EXCEPT !.created_at = now, !.updated_at = now]
    IN  IF bike.bike_id \in DOMAIN bikeTable
        THEN [err |-> "pq: duplicate key", bike |-> bike, bikes |-> bikeTable]
        ELSE IF ~BikesCheck(row)
        THEN [err |-> "pq: check violation", bike |-> bike, bikes |-> bikeTable]
        ELSE IF ~BikesForeignKeys(row)
        THEN [err |-> "user does not exist", bike |-> bike, bikes |-> bikeTable]
        ELSE [err |-> "",
              bike |-> [bike EXCEPT !.created_at = now, !.updated_at = now],
              bikes |-> With(bikeTable, bike.bike_id, row)]

\* a SELECT that scans an empty bike when no row has the id
BikeRepoGetBikeByIDNoRows(bikeId, bikeTable) ==
    IF bikeId \in DOMAIN bikeTable
    THEN [err |-> "", bike |-> ScanBike(bikeTable[bikeId])]
    ELSE [err |-> "", bike |-> ZeroBike]

\* SELECT ... FROM bikes WHERE bike_id = $1
BikeRepoGetBikeByID(bikeId, bikeTable) ==
    IF bikeId \in DOMAIN bikeTable
    THEN [err |-> "", bike |-> ScanBike(bikeTable[bikeId])]
    ELSE [err |-> "bike not found", bike |-> ZeroBike]

\* the list query without its WHERE clause
BikeRepoGetBikesByUserIDUnfiltered(userId, bikeTable) ==
    {ScanBike(bikeTable[b]) : b \in DOMAIN bikeTable}

\* SELECT ... FROM bikes WHERE user_id = $1
BikeRepoGetBikesByUserID(userId, bikeTable) ==
    {ScanBike(bikeTable[b]) : b \in {x \in DOMAIN bikeTable : bikeTable[x].user_id = userId}}

\* BikeRepoDeleteBike with fk_bike declared without ON DELETE CASCADE
BikeRepoDeleteBikeNoCascade(bikeId, bikeTable, compTable) ==
    IF bikeId \in DOMAIN bikeTable
    THEN [err |-> "", bikes |-> Without(bikeTable, {bikeId}), components |-> compTable]
    ELSE [err |-> "Bike not found", bikes |-> bikeTable, components |-> compTable]

BikeRepoDeleteBike(bikeId, bikeTable, compTable) ==
    IF bikeId \in DOMAIN bikeTable
    THEN [err |-> "", bikes |-> Without(bikeTable, {bikeId}),
          components |-> Without(compTable, CascadeOf(bikeId, compTable))]
    ELSE [err |-> "Bike not found", bikes |-> bikeTable, components |-> compTable]

\* BikeRepoUpdateBike with user_id and created_at in its SET list
BikeRepoUpdateBikeSetsOwner(bike, bikeTable, now) ==
    IF bike.bike_id \notin DOMAIN bikeTable
    THEN [err |-> "bike not found", bike |-> bike, bikes |-> bikeTable]
    ELSE LET old == bikeTable[bike.bike_id]
             row == [old EXCEPT
                       !.user_id = Coalesce(bike.user_id, NilUUID, old.user_id),
                       !.created_at = Coalesce(bike.created_at, ZeroTime, old.created_at),
                       !.bike_name = Coalesce(bike.bike_name, "", old.bike_name),
                       !.type = Coalesce(bike.type, "", old.type),
                       !.model = Coalesce(bike.model, "", old.model),
                       !.year = Coalesce(bike.year, 0, old.year),
                       !.mileage = Coalesce(bike.mileage, 0, old.mileage),
                       !.updated_at = now]
         IN  IF ~BikesCheck(row)
             THEN [err |-> "error updating bike", bike |-> bike, bikes |-> bikeTable]
             ELSE [err |-> "",
                   bike |-> [ScanBike(row) EXCEPT !.components = bike.components],
                   bikes |-> With(bikeTable, bike.bike_id, row)]

\* BikeRepoUpdateBike with plain assignments in place of COALESCE(NULLIF(..))
BikeRepoUpdateBikeOverwrite(bike, bikeTable, now) ==
    IF bike.bike_id \notin DOMAIN bikeTable
    THEN [err |-> "bike not found", bike |-> bike, bikes |-> bikeTable]
    ELSE LET old == bikeTable[bike.bike_id]
             row == [old EXCEPT !.bike_name = bike.bike_name, !.type = bike.type,
                                !.model = bike.model, !.year = bike.year,
                                !.mileage = bike.mileage, !.updated_at = now]
         IN  IF ~BikesCheck(row)
             THEN [err |-> "error updating bike", bike |-> bike, bikes |-> bikeTable]
             ELSE [err |-> "",
                   bike |-> [ScanBike(row) EXCEPT !.components = bike.components],
                   bikes |-> With(bikeTable, bike.bike_id, row)]

BikeRepoUpdateBike(bike, bikeTable, now) ==
    IF bike.bike_id \notin DOMAIN bikeTable
    THEN [err |-> "bike not found", bike |-> bike, bikes |-> bikeTable]
    ELSE LET old == bikeTable[bike.bike_id]
             row == [old EXCEPT
                       !.bike_name = Coalesce(bike.bike_name, "", old.bike_name),
                       !.type = Coalesce(bike.type, "", old.type),
                       !.model = Coalesce(bike.model, "", old.model),
                       !.year = Coalesce(bike.year, 0, old.year),
                       !.mileage = Coalesce(bike.mileage, 0, old.mileage),
                       !.updated_at = now]
         IN  IF ~BikesCheck(row)
             THEN [err |-> "error updating bike", bike |-> bike, bikes |-> bikeTable]
             ELSE [err |-> "",
                   bike |-> [ScanBike(row) EXCEPT !.components = bike.components],
                   bikes |-> With(bikeTable, bike.bike_id, row)]

ComponentRepoCreateComponent(component, compTable, bikeTable, now) ==
    LET row == [component EXCEPT !.created_at = now, !.updated_at = now]
    IN  IF component.id \in DOMAIN compTable
        THEN [err |-> "pq: duplicate key", component |-> component,
              components |-> compTable]
        ELSE IF ~ComponentsCheck(row)
        THEN [err |-> "pq: check violation", component |-> component,
              components |-> compTable]
        ELSE IF ~FkBike(row, bikeTable)
        THEN [err |-> "bike does not exist", component |-> component,
              components |-> compTable]
        ELSE [err |-> "", component |-> row,
              components |-> With(compTable, component.id, row)]

\* a SELECT that scans an empty component when no row has the id
ComponentRepoGetComponentByIDNoRows(componentId, compTable) ==
    IF componentId \in DOMAIN compTable
    THEN [err |-> "", component |-> compTable[componentId]]
    ELSE [err |-> "", component |-> ZeroComponent]

ComponentRepoGetComponentByID(componentId, compTable) ==
    IF componentId \in DOMAIN compTable
    THEN [err |-> "", component |-> compTable[componentId]]
    ELSE [err |-> "component not found", component |-> ZeroComponent]

ComponentRepoGetComponentsByBikeID(bikeId, compTable) ==
    {compTable[c] : c \in CascadeOf(bikeId, compTable)}

ComponentRepoUpdateComponent(component, compTable, now) ==
    IF component.id \notin DOMAIN compTable
    THEN [err |-> "component not found", component |-> component,
          components |-> compTable]
    ELSE LET old == compTable[component.id]
             row == [old EXCEPT
                       !.name = Coalesce(component.name, "", old.name),
                       !.brand = Coalesce(component.brand, "", old.brand),
                       !.model = Coalesce(component.model, "", old.model),
                       !.installed_at =
                           Coalesce(component.installed_at, ZeroTime, old.installed_at),
                       !.installed_mileage =
                           Coalesce(component.installed_mileage, 0, old.installed_mileage),
                       !.max_mileage =
                           Coalesce(component.max_mileage, 0, old.max_mileage),
                       !.updated_at = now]
         IN  IF ~ComponentsCheck(row)
             THEN [err |-> "error updating component", component |-> component,
                   components |-> compTable]
             ELSE [err |-> "", component |-> row,
                   components |-> With(compTable, component.id, row)]

\* a DELETE that does not look at the number of rows it removed
ComponentRepoDeleteComponentAnyRows(componentId, compTable) ==
    [err |-> "", components |-> Without(compTable, {componentId})]

\* DELETE FROM components WHERE id = $1; no row affected is an error
ComponentRepoDeleteComponent(componentId, compTable) ==
    IF componentId \in DOMAIN compTable
    THEN [err |-> "", components |-> Without(compTable, {componentId})]
    ELSE [err |-> "component not found", components |-> compTable]

(***************************************************************************)
(* Cache port: Get / Set with a time to live / Delete.  A call either       *)
(* reaches the cache (ok) or fails with an error and changes nothing.       *)
(***************************************************************************)
CacheTTLMinutes == 15

CacheGet(key, ok, c) ==
    IF ok /\ key \in DOMAIN c
    THEN [err |-> FALSE, data |-> c[key].data]
    ELSE [err |-> TRUE, data |-> JSONMarshalBike(ZeroBike)]

CacheSet(key, data, ttl, ok, c) == IF ok THEN With(c, key, [data |-> data, ttl |-> ttl]) ELSE c

CacheDelete(key, ok, c) == IF ok THEN Without(c, {key}) ELSE c

(***************************************************************************)
(* Workers.  req[w] is the request worker w serves: the HTTP handler (the   *)
(* empty string for a direct call of a service), the service operation it   *)
(* is in and the step of that operation, the locals, and a record of the    *)
(* calls the request has made.                                              *)
(***************************************************************************)
NoPayload == [exists |-> FALSE, user_id |-> NilUUID, role |-> ""]

IdleReq ==
    [handler |-> "", hpc |-> "", op |-> "", pc |-> "idle",
     payload |-> NoPayload, pathId |-> BadId, idstr |-> BadId,
     bodyJson |-> FALSE, bodyBikeId |-> BadId,
     bodyBike |-> ZeroBike, bodyComponent |-> ZeroComponent,
     bike |-> ZeroBike, component |-> ZeroComponent, list |-> {},
     existingBike |-> ZeroBike, existingComponent |-> ZeroComponent,
     userInfo |-> FALSE, arrival |-> [bikes |-> {}, components |-> {}],
     derived |-> [current_mileage |-> 0, needs_replacement |-> FALSE],
     reply |-> [bikes |-> {}, err |-> ""],
     err |-> "", status |-> 0,
     fromCache |-> FALSE, hitSrc |-> {}, cacheFailed |-> FALSE,
     cacheOps |-> <<>>, repoCalls |-> <<>>, svcCalls |-> <<>>]

Free(w) == req[w].pc \in {"idle", "done"}

\* the first step of each service operation
Entry(op) == op

\* enter service operation op with identifier string s
Call(r, op, s) ==
    [r EXCEPT !.op = op, !.pc = Entry(op), !.idstr = s, !.err = "",
              !.fromCache = FALSE, !.svcCalls = Append(@, op)]

\* a cache call whose failure becomes the error of the service call
CacheOpEscalating(r, name, key, ok) ==
    [r EXCEPT !.cacheOps = Append(@, <<name, key>>),
              !.cacheFailed = @ \/ ~ok,
              !.err = IF ok THEN @ ELSE "cache error"]

\* a call of the cache port, recorded; its error is logged and dropped
CacheOp(r, name, key, ok) ==
    [r EXCEPT !.cacheOps = Append(@, <<name, key>>),
              !.cacheFailed = @ \/ ~ok]

RepoCall(r, name) == [r EXCEPT !.repoCalls = Append(@, name)]

(***************************************************************************)
(* HTTP handlers.  A handler is the local code between its service calls:   *)
(* HandlerStart runs it up to the first call, HandlerResume from the return *)
(* of one call to the next call or to the response.                         *)
(***************************************************************************)
StatusOK == 200
StatusCreated == 201
StatusBadRequest == 400
StatusUnauthorized == 401
StatusForbidden == 403
StatusNotFound == 404
StatusInternalServerError == 500

Respond(r, status) == [r EXCEPT !.pc = "done", !.status = status]

\* the handlers without their ownership check
DeniedNobody(payload, bike) == FALSE

\* payload.Role != domain.Admin && payload.UserID != bike.UserID
Denied(payload, bike) == payload.role # Admin /\ payload.user_id # bike.user_id

\* ShouldBindJSON into BikeRequest: model, type and mileage are binding:"required"
BindBikeRequest(json, b) == json /\ b.model # "" /\ b.type # "" /\ b.mileage # 0

\* ShouldBindJSON into ComponentRequest
BindComponentRequest(json, bikeIdStr, c) ==
    /\ json
    /\ bikeIdStr # EmptyId
    /\ c.name # ""
    /\ c.installed_mileage # 0
    /\ c.max_mileage # 0

\* ShouldBindJSON into UpdateBike / UpdateComponent: every field is optional
BindUpdate(json) == json

\* the ownership check after the bike lookup, then the rest of the handler
AfterLookup(r, allowed) ==
    IF r.err # "" THEN Respond(r, StatusNotFound)
    ELSE IF Denied(r.payload, r.bike) THEN Respond(r, StatusForbidden)
    ELSE allowed

\* a component handler, after its component lookup: look up the parent bike
LookupParent(r) ==
    IF r.err # "" THEN Respond(r, StatusNotFound)
    ELSE Call([r EXCEPT !.existingComponent = r.component, !.hpc = "lookup"],
              "GetBikeByID", UUIDString(r.component.bike_id))

AfterMutation(r, success) ==
    IF r.err # "" THEN Respond(r, StatusInternalServerError) ELSE Respond(r, success)

\* int32(n) of a Go int: mileage comes from an INT column, whose values the
\* conversion keeps
Int32(n) == n

\* &webikev1.Bike{BikeId: bike.BikeID.String(), Model: bike.Model, Mileage: int32(bike.Mileage)}
PbBike(bike) ==
    [bike_id |-> UUIDString(bike.bike_id), model |-> bike.model,
     mileage |-> Int32(bike.mileage)]

\* serverAPI.GetBikes handing the service's error on to its caller
GetBikesReplyWithError(r) ==
    [r EXCEPT !.pc = "done",
              !.reply = IF r.err # ""
                        THEN [bikes |-> {}, err |-> r.err]
                        ELSE [bikes |-> {PbBike(b) : b \in r.list}, err |-> ""]]

\* serverAPI.GetBikes after the service call: an empty list when it failed,
\* else one entry per bike; the error returned is nil either way
GetBikesReply(r) ==
    [r EXCEPT !.pc = "done",
              !.reply = IF r.err # ""
                        THEN [bikes |-> {}, err |-> ""]
                        ELSE [bikes |-> {PbBike(b) : b \in r.list}, err |-> ""]]

HandlerResume(r, now) ==
    LET id == UUIDParse(r.pathId)
        bikeId == UUIDParse(r.bodyBikeId)
    IN
    CASE r.handler = "CreateBike" -> AfterMutation(r, StatusCreated)
      [] r.handler = "GetBikes" -> GetBikesReply(r)
      [] r.handler = "GetBike" -> AfterLookup(r, Respond(r, StatusOK))
      [] r.handler = "GetMyBikes" -> AfterMutation(r, StatusOK)
      [] r.handler = "GetBikeWithComponents" -> AfterLookup(r, Respond(r, StatusOK))
      [] r.handler = "GetBikeWithUser" ->
            AfterLookup(r, [r EXCEPT !.pc = "GetUsersID"])
      [] r.handler = "UpdateBike" /\ r.hpc = "lookup" ->
            AfterLookup(r,
                IF ~BindUpdate(r.bodyJson) THEN Respond(r, StatusBadRequest)
                ELSE IF id.err THEN Respond(r, StatusBadRequest)
                ELSE Call([r EXCEPT !.existingBike = r.bike, !.hpc = "mutate",
                                    !.bike = [ZeroBike EXCEPT
                                                !.bike_id = id.uuid,
                                                !.user_id = r.bike.user_id,
                                                !.model = r.bodyBike.model,
                                                !.type = r.bodyBike.type,
                                                !.mileage = r.bodyBike.mileage]],
                          "UpdateBike", r.pathId))
      [] r.handler = "DeleteBike" /\ r.hpc = "lookup" ->
            AfterLookup(r, Call([r EXCEPT !.existingBike = r.bike, !.hpc = "mutate"],
                                "DeleteBike", r.pathId))
      [] r.handler = "CreateComponent" /\ r.hpc = "lookup" ->
            AfterLookup(r,
                IF bikeId.err THEN Respond(r, StatusBadRequest)
                ELSE Call([r EXCEPT !.hpc = "mutate",
                                    !.component = [ZeroComponent EXCEPT
                                        !.bike_id = bikeId.uuid,
                                        !.name = r.bodyComponent.name,
                                        !.brand = r.bodyComponent.brand,
                                        !.model = r.bodyComponent.model,
                                        !.installed_at = now,
                                        !.installed_mileage =
                                            r.bodyComponent.installed_mileage,
                                        !.max_mileage = r.bodyComponent.max_mileage]],
                          "CreateComponent", r.bodyBikeId))
      [] r.handler = "CreateComponent" /\ r.hpc = "mutate" ->
            AfterMutation(r, StatusCreated)
      [] r.handler \in {"GetComponent", "UpdateComponent", "DeleteComponent"}
            /\ r.hpc = "component" -> LookupParent(r)
      [] r.handler = "GetComponent" /\ r.hpc = "lookup" ->
            AfterLookup(r, Respond(r, StatusOK))
      [] r.handler = "UpdateComponent" /\ r.hpc = "lookup" ->
            AfterLookup(r,
                IF ~BindUpdate(r.bodyJson) THEN Respond(r, StatusBadRequest)
                ELSE IF id.err THEN Respond(r, StatusBadRequest)
                ELSE Call([r EXCEPT !.hpc = "mutate",
                                    !.component = [ZeroComponent EXCEPT
                                        !.id = id.uuid,
                                        !.bike_id = r.existingComponent.bike_id,
                                        !.name = r.bodyComponent.name,
                                        !.brand = r.bodyComponent.brand,
                                        !.model = r.bodyComponent.model,
                                        !.installed_mileage =
                                            r.bodyComponent.installed_mileage,
                                        !.max_mileage = r.bodyComponent.max_mileage]],
                          "UpdateComponent", r.pathId))
      [] r.handler = "DeleteComponent" /\ r.hpc = "lookup" ->
            AfterLookup(r, Call([r EXCEPT !.hpc = "mutate"], "DeleteComponent", r.pathId))
      [] OTHER -> AfterMutation(r, StatusOK)

\* the service operation returns to its caller
Resume(r, now) ==
    IF r.handler = "" THEN [r EXCEPT !.pc = "done"] ELSE HandlerResume(r, now)

\* the handlers taking any request as authenticated
getAuthPayloadUnchecked(r) == TRUE

\* payload, exists := getAuthPayload(c, "authorization_payload")
getAuthPayload(r) == r.payload.exists

\* a handler from its entry to its first service call
HandlerStart(r) ==
    IF ~getAuthPayload(r) THEN Respond(r, StatusUnauthorized)
    ELSE CASE r.handler = "CreateBike" ->
                IF ~BindBikeRequest(r.bodyJson, r.bodyBike)
                THEN Respond(r, StatusBadRequest)
                ELSE Call([r EXCEPT !.bike = [ZeroBike EXCEPT
                                                !.user_id = r.payload.user_id,
                                                !.model = r.bodyBike.model,
                                                !.type = r.bodyBike.type,
                                                !.mileage = r.bodyBike.mileage]],
                          "CreateBike", r.pathId)
           [] r.handler = "GetMyBikes" ->
                Call(r, "GetBikesByUserID", UUIDString(r.payload.user_id))
           [] r.handler = "GetBikeWithComponents" ->
                Call([r EXCEPT !.hpc = "lookup"], "GetBikeWithComponents", r.pathId)
           [] r.handler = "CreateComponent" ->
                IF ~BindComponentRequest(r.bodyJson, r.bodyBikeId, r.bodyComponent)
                THEN Respond(r, StatusBadRequest)
                ELSE Call([r EXCEPT !.hpc = "lookup"], "GetBikeByID", r.bodyBikeId)
           [] r.handler \in {"GetComponent", "UpdateComponent", "DeleteComponent"} ->
                Call([r EXCEPT !.hpc = "component"], "GetComponentByID", r.pathId)
           [] OTHER -> Call([r EXCEPT !.hpc = "lookup"], "GetBikeByID", r.pathId)

(***************************************************************************)
(* The tests the services make on what a call returned.                     *)
(***************************************************************************)
\* a service that takes every identifier string as parsed
InvalidIDIgnored(parsed) == FALSE

\* uuid.Parse(...); if err != nil
InvalidID(parsed) == parsed.err

\* a service that leaves a nil identity as it is
NewIDKeepsNil(given, fresh) == given

\* if bike.BikeID == uuid.Nil { bike.BikeID = uuid.New() }
NewID(given, fresh) == IF given = NilUUID THEN fresh ELSE given

\* a service that takes every storage call as successful
FailedNever(err) == FALSE

\* if err != nil, after a repository call
Failed(err) == err # ""

\* a service that never takes the cached entry
CacheHitNever(got, dec) == FALSE

\* cachedData, err := s.cache.Get(cacheKey); err == nil, and json.Unmarshal err == nil
CacheHit(got, dec) == ~got.err /\ ~dec.err

(***************************************************************************)
(* BikeService                                                             *)
(***************************************************************************)
\* GetBikeByID: parse the id, then look in the cache
BikeServiceGetBikeByID(w, ok) ==
    LET r == req[w]
        parsed == UUIDParse(r.idstr)
        key == CacheKey(r.idstr)
        got == CacheGet(key, ok, cache)
        dec == JSONUnmarshalBike(got.data)
        r1 == CacheOp(r, "Get", key, ok)
    IN  /\ r.pc = "GetBikeByID"
        /\ req' = [req EXCEPT ![w] =
              IF InvalidID(parsed)
              THEN Resume([r EXCEPT !.err = "invalid bike ID", !.bike = ZeroBike], clock)
              ELSE IF CacheHit(got, dec)
              THEN Resume([r1 EXCEPT !.bike = dec.bike, !.fromCache = TRUE,
                                     !.hitSrc = cacheSrc[key]], clock)
              ELSE [r1 EXCEPT !.pc = "GetBikeByID.repo"]]
        /\ UNCHANGED <<bikes, components, cache, cacheSrc, clock, issued, nreq, ledger>>

\* GetBikeByID after a miss, reading with a statement that stamps the row it reads
BikeServiceGetBikeByIDRepoTouching(w) ==
    LET r == req[w]
        id == UUIDParse(r.idstr).uuid
        res == BikeRepoGetBikeByID(id, bikes)
        r1 == RepoCall(r, "GetBikeByID")
    IN  /\ r.pc = "GetBikeByID.repo"
        /\ req' = [req EXCEPT ![w] =
              IF Failed(res.err)
              THEN Resume([r1 EXCEPT !.err = res.err, !.bike = ZeroBike], clock)
              ELSE [r1 EXCEPT !.bike = res.bike, !.pc = "GetBikeByID.set"]]
        /\ bikes' = IF Failed(res.err) THEN bikes
                    ELSE With(bikes, id, [bikes[id] EXCEPT !.updated_at = clock + 1])
        /\ UNCHANGED <<components, cache, cacheSrc, clock, issued, nreq, ledger>>

\* GetBikeByID after a miss: read the bike from storage
BikeServiceGetBikeByIDRepo(w) ==
    LET r == req[w]
        res == BikeRepoGetBikeByID(UUIDParse(r.idstr).uuid, bikes)
        r1 == RepoCall(r, "GetBikeByID")
    IN  /\ r.pc = "GetBikeByID.repo"
        /\ req' = [req EXCEPT ![w] =
              IF Failed(res.err)
              THEN Resume([r1 EXCEPT !.err = res.err, !.bike = ZeroBike], clock)
              ELSE [r1 EXCEPT !.bike = res.bike, !.pc = "GetBikeByID.set"]]
        /\ UNCHANGED <<bikes, components, cache, cacheSrc, clock, issued, nreq, ledger>>

\* GetBikeByID after the read: best-effort write of the bike to the cache
BikeServiceGetBikeByIDSet(w, ok) ==
    LET r == req[w]
        key == CacheKey(r.idstr)
        id == UUIDParse(r.idstr).uuid
    IN  /\ r.pc = "GetBikeByID.set"
        /\ cache' = CacheSet(key, JSONMarshalBike(r.bike), CacheTTLMinutes, ok, cache)
        /\ cacheSrc' = IF ok
                       THEN With(cacheSrc, key,
                                 IF id \in DOMAIN bikes THEN {bikes[id]} ELSE {})
                       ELSE cacheSrc
        /\ req' = [req EXCEPT ![w] = Resume(CacheOp(r, "Set", key, ok), clock)]
        /\ UNCHANGED <<bikes, components, clock, issued, nreq, ledger>>

\* CreateBike: validate, give the bike an identity, insert it
BikeServiceCreateBike(w) ==
    LET r == req[w]
    IN  /\ r.pc = "CreateBike"
        /\ IF ~ValidateBike(r.bike)
           THEN /\ req' = [req EXCEPT ![w] =
                       Resume([r EXCEPT !.err = "validation error"], clock)]
                /\ UNCHANGED <<bikes, clock, issued, ledger>>
           ELSE \E fresh \in BikeIds :
                  LET id == NewID(r.bike.bike_id, fresh)
                      res == BikeRepoCreateBike([r.bike EXCEPT !.bike_id = id], bikes, clock)
                      r1 == RepoCall(r, "CreateBike")
                  IN  /\ r.bike.bike_id = NilUUID => fresh \notin issued.bikes
                      /\ r.bike.bike_id # NilUUID => fresh = r.bike.bike_id
                      /\ bikes' = res.bikes
                      /\ clock' = IF res.err = "" THEN clock + 1 ELSE clock
                      /\ issued' = [issued EXCEPT !.bikes = @ \cup {id}]
                      /\ ledger' = IF res.err = ""
                                   THEN [ledger EXCEPT !.owner = With(@, id, r.bike.user_id)]
                                   ELSE ledger
                      /\ req' = [req EXCEPT ![w] =
                             Resume([r1 EXCEPT !.err = res.err,
                                               !.bike = IF res.err = "" THEN res.bike
                                                        ELSE ZeroBike], clock)]
        /\ UNCHANGED <<components, cache, cacheSrc, nreq>>

\* UpdateBike: validate, then the merging UPDATE
BikeServiceUpdateBike(w) ==
    LET r == req[w]
        res == BikeRepoUpdateBike(r.bike, bikes, clock)
        r1 == RepoCall(r, "UpdateBike")
    IN  /\ r.pc = "UpdateBike"
        /\ IF ~ValidateBike(r.bike)
           THEN /\ req' = [req EXCEPT ![w] =
                       Resume([r EXCEPT !.err = "validation error"], clock)]
                /\ UNCHANGED <<bikes, clock>>
           ELSE /\ bikes' = res.bikes
                /\ clock' = IF res.err = "" THEN clock + 1 ELSE clock
                /\ req' = [req EXCEPT ![w] =
                       IF Failed(res.err)
                       THEN Resume([r1 EXCEPT !.err = res.err], clock)
                       ELSE [r1 EXCEPT !.bike = res.bike, !.pc = "UpdateBike.inval"]]
        /\ UNCHANGED <<components, cache, cacheSrc, issued, nreq, ledger>>

\* an UpdateBike that writes the updated bike through to the cache
BikeServiceUpdateBikeWriteThrough(w, ok) ==
    LET r == req[w]
        key == CacheKey(UUIDString(r.bike.bike_id))
    IN  /\ r.pc = "UpdateBike.inval"
        /\ cache' = CacheSet(key, JSONMarshalBike(r.bike), CacheTTLMinutes, ok, cache)
        /\ cacheSrc' = IF ok THEN With(cacheSrc, key, {bikes[r.bike.bike_id]})
                       ELSE cacheSrc
        /\ req' = [req EXCEPT ![w] = Resume(CacheOp(r, "Set", key, ok), clock)]
        /\ ledger' = [ledger EXCEPT !.invalFailed = @ \/ ~ok]
        /\ UNCHANGED <<bikes, components, clock, issued, nreq>>

\* UpdateBike after the write: best-effort invalidation
BikeServiceUpdateBikeInval(w, ok) ==
    LET r == req[w]
        key == CacheKey(UUIDString(r.bike.bike_id))
    IN  /\ r.pc = "UpdateBike.inval"
        /\ cache' = CacheDelete(key, ok, cache)
        /\ cacheSrc' = CacheDelete(key, ok, cacheSrc)
        /\ req' = [req EXCEPT ![w] = Resume(CacheOp(r, "Delete", key, ok), clock)]
        /\ ledger' = [ledger EXCEPT !.invalFailed = @ \/ ~ok]
        /\ UNCHANGED <<bikes, components, clock, issued, nreq>>

\* DeleteBike: parse the id, then the DELETE (components go by cascade)
BikeServiceDeleteBike(w) ==
    LET r == req[w]
        parsed == UUIDParse(r.idstr)
        res == BikeRepoDeleteBike(parsed.uuid, bikes, components)
        r1 == RepoCall(r, "DeleteBike")
    IN  /\ r.pc = "DeleteBike"
        /\ IF InvalidID(parsed)
           THEN /\ req' = [req EXCEPT ![w] =
                       Resume([r EXCEPT !.err = "invalid bike ID"], clock)]
                /\ UNCHANGED <<bikes, components>>
           ELSE /\ bikes' = res.bikes
                /\ components' = res.components
                /\ req' = [req EXCEPT ![w] =
                       IF Failed(res.err)
                       THEN Resume([r1 EXCEPT !.err = res.err], clock)
                       ELSE [r1 EXCEPT !.pc = "DeleteBike.inval"]]
        /\ UNCHANGED <<cache, cacheSrc, clock, issued, nreq, ledger>>

\* DeleteBike after the delete: best-effort invalidation
BikeServiceDeleteBikeInval(w, ok) ==
    LET r == req[w]
        key == CacheKey(r.idstr)
    IN  /\ r.pc = "DeleteBike.inval"
        /\ cache' = CacheDelete(key, ok, cache)
        /\ cacheSrc' = CacheDelete(key, ok, cacheSrc)
        /\ req' = [req EXCEPT ![w] = Resume(CacheOp(r, "Delete", key, ok), clock)]
        /\ ledger' = [ledger EXCEPT !.invalFailed = @ \/ ~ok]
        /\ UNCHANGED <<bikes, components, clock, issued, nreq>>

\* ORDER BY installed_at DESC, as a sequence
RECURSIVE OrderByInstalledAtDesc(_)
OrderByInstalledAtDesc(rows) ==
    IF rows = {} THEN <<>>
    ELSE LET first == CHOOSE x \in rows :
                        \A y \in rows : \/ x.installed_at > y.installed_at
                                        \/ (x.installed_at = y.installed_at /\ x.id <= y.id)
         IN  <<first>> \o OrderByInstalledAtDesc(rows \ {first})

\* GetBikesByUserID: parse the id, then list the user's bikes
BikeServiceGetBikesByUserID(w) ==
    LET r == req[w]
        parsed == UUIDParse(r.idstr)
    IN  /\ r.pc = "GetBikesByUserID"
        /\ req' = [req EXCEPT ![w] =
              IF InvalidID(parsed)
              THEN Resume([r EXCEPT !.err = "invalid user ID", !.list = {}], clock)
              ELSE Resume([RepoCall(r, "GetBikesByUserID") EXCEPT
                             !.list = BikeRepoGetBikesByUserID(parsed.uuid, bikes)], clock)]
        /\ UNCHANGED <<bikes, components, cache, cacheSrc, clock, issued, nreq, ledger>>

\* GetBikesByUserID when the query of the repository fails: the error is returned
BikeServiceGetBikesByUserIDQueryFails(w) ==
    LET r == req[w]
        parsed == UUIDParse(r.idstr)
    IN  /\ r.pc = "GetBikesByUserID"
        /\ ~InvalidID(parsed)
        /\ req' = [req EXCEPT ![w] =
              Resume([RepoCall(r, "GetBikesByUserID") EXCEPT
                        !.err = "query failed", !.list = {}], clock)]
        /\ UNCHANGED <<bikes, components, cache, cacheSrc, clock, issued, nreq, ledger>>

\* GetBikeWithComponents: parse the id, then read the bike from storage
BikeServiceGetBikeWithComponents(w) ==
    LET r == req[w]
        parsed == UUIDParse(r.idstr)
        res == BikeRepoGetBikeByID(parsed.uuid, bikes)
        r1 == RepoCall(r, "GetBikeByID")
    IN  /\ r.pc = "GetBikeWithComponents"
        /\ req' = [req EXCEPT ![w] =
              IF InvalidID(parsed)
              THEN Resume([r EXCEPT !.err = "invalid bike ID", !.bike = ZeroBike], clock)
              ELSE IF Failed(res.err)
              THEN Resume([r1 EXCEPT !.err = res.err, !.bike = ZeroBike], clock)
              ELSE [r1 EXCEPT !.bike = res.bike, !.pc = "GetBikeWithComponents.components"]]
        /\ UNCHANGED <<bikes, components, cache, cacheSrc, clock, issued, nreq, ledger>>

\* a GetBikeWithComponents that returns the error of the component lookup
BikeServiceGetBikeWithComponentsListStrict(w, ok) ==
    LET r == req[w]
        rows == ComponentRepoGetComponentsByBikeID(UUIDParse(r.idstr).uuid, components)
        r1 == RepoCall(r, "GetComponentsByBikeID")
    IN  /\ r.pc = "GetBikeWithComponents.components"
        /\ req' = [req EXCEPT ![w] =
              IF ok
              THEN Resume([r1 EXCEPT !.bike.components = OrderByInstalledAtDesc(rows)],
                          clock)
              ELSE Resume([r1 EXCEPT !.err = "failed to get components",
                                     !.bike = ZeroBike], clock)]
        /\ UNCHANGED <<bikes, components, cache, cacheSrc, clock, issued, nreq, ledger>>

\* GetBikeWithComponents after the bike: its components, or none when the lookup fails
BikeServiceGetBikeWithComponentsList(w, ok) ==
    LET r == req[w]
        rows == ComponentRepoGetComponentsByBikeID(UUIDParse(r.idstr).uuid, components)
        r1 == RepoCall(r, "GetComponentsByBikeID")
    IN  /\ r.pc = "GetBikeWithComponents.components"
        /\ req' = [req EXCEPT ![w] =
              Resume([r1 EXCEPT !.bike.components =
                          IF ok THEN OrderByInstalledAtDesc(rows) ELSE <<>>], clock)]
        /\ UNCHANGED <<bikes, components, cache, cacheSrc, clock, issued, nreq, ledger>>

(***************************************************************************)
(* ComponentService                                                        *)
(***************************************************************************)
\* CreateComponent: validate, give the component an identity, insert it
ComponentServiceCreateComponent(w) ==
    LET r == req[w]
    IN  /\ r.pc = "CreateComponent"
        /\ IF ~ValidateComponent(r.component)
           THEN /\ req' = [req EXCEPT ![w] =
                       Resume([r EXCEPT !.err = "validation error"], clock)]
                /\ UNCHANGED <<components, clock, issued, ledger>>
           ELSE \E fresh \in ComponentIds :
                  LET id == NewID(r.component.id, fresh)
                      res == ComponentRepoCreateComponent(
                                 [r.component EXCEPT !.id = id], components, bikes, clock)
                      r1 == RepoCall(r, "CreateComponent")
                  IN  /\ r.component.id = NilUUID => fresh \notin issued.components
                      /\ r.component.id # NilUUID => fresh = r.component.id
                      /\ components' = res.components
                      /\ clock' = IF res.err = "" THEN clock + 1 ELSE clock
                      /\ issued' = [issued EXCEPT !.components = @ \cup {id}]
                      /\ ledger' = IF res.err = ""
                                   THEN [ledger EXCEPT
                                           !.parent = With(@, id, r.component.bike_id)]
                                   ELSE ledger
                      /\ req' = [req EXCEPT ![w] =
                             IF Failed(res.err)
                             THEN Resume([r1 EXCEPT !.err = res.err,
                                                    !.component.id = id], clock)
                             ELSE [r1 EXCEPT !.component = res.component,
                                             !.pc = "CreateComponent.inval"]]
        /\ UNCHANGED <<bikes, cache, cacheSrc, nreq>>

\* ComponentCacheKey built from the component's own id
ComponentCacheKeyOwnId(component) == CacheKey(UUIDString(component.id))

\* fmt.Sprintf("bike:%s", component.BikeID.String())
ComponentCacheKey(component) == CacheKey(UUIDString(component.bike_id))

\* a component mutation after its write: best-effort invalidation of the bike's key
ComponentInval(w, pc, ok) ==
    LET r == req[w]
        key == ComponentCacheKey(r.component)
    IN  /\ r.pc = pc
        /\ cache' = CacheDelete(key, ok, cache)
        /\ cacheSrc' = CacheDelete(key, ok, cacheSrc)
        /\ req' = [req EXCEPT ![w] = Resume(CacheOp(r, "Delete", key, ok), clock)]
        /\ ledger' = [ledger EXCEPT !.invalFailed = @ \/ ~ok]
        /\ UNCHANGED <<bikes, components, clock, issued, nreq>>

ComponentServiceCreateComponentInval(w, ok) == ComponentInval(w, "CreateComponent.inval", ok)

\* GetComponentByID: parse the id, then read the component
ComponentServiceGetComponentByID(w) ==
    LET r == req[w]
        parsed == UUIDParse(r.idstr)
        res == ComponentRepoGetComponentByID(parsed.uuid, components)
        r1 == RepoCall(r, "GetComponentByID")
    IN  /\ r.pc = "GetComponentByID"
        /\ req' = [req EXCEPT ![w] =
              IF InvalidID(parsed)
              THEN Resume([r EXCEPT !.err = "invalid component ID",
                                    !.component = ZeroComponent], clock)
              ELSE Resume([r1 EXCEPT !.err = res.err, !.component = res.component], clock)]
        /\ UNCHANGED <<bikes, components, cache, cacheSrc, clock, issued, nreq, ledger>>

\* UpdateComponent: validate, then the merging UPDATE
ComponentServiceUpdateComponent(w) ==
    LET r == req[w]
        res == ComponentRepoUpdateComponent(r.component, components, clock)
        r1 == RepoCall(r, "UpdateComponent")
    IN  /\ r.pc = "UpdateComponent"
        /\ IF ~ValidateComponent(r.component)
           THEN /\ req' = [req EXCEPT ![w] =
                       Resume([r EXCEPT !.err = "validation error"], clock)]
                /\ UNCHANGED <<components, clock>>
           ELSE /\ components' = res.components
                /\ clock' = IF res.err = "" THEN clock + 1 ELSE clock
                /\ req' = [req EXCEPT ![w] =
                       IF Failed(res.err)
                       THEN Resume([r1 EXCEPT !.err = res.err], clock)
                       ELSE [r1 EXCEPT !.component = res.component,
                                       !.pc = "UpdateComponent.inval"]]
        /\ UNCHANGED <<bikes, cache, cacheSrc, issued, nreq, ledger>>

ComponentServiceUpdateComponentInval(w, ok) == ComponentInval(w, "UpdateComponent.inval", ok)

\* DeleteComponent: parse the id, then load the component to learn its bike
ComponentServiceDeleteComponent(w) ==
    LET r == req[w]
        parsed == UUIDParse(r.idstr)
        res == ComponentRepoGetComponentByID(parsed.uuid, components)
        r1 == RepoCall(r, "GetComponentByID")
    IN  /\ r.pc = "DeleteComponent"
        /\ req' = [req EXCEPT ![w] =
              IF InvalidID(parsed)
              THEN Resume([r EXCEPT !.err = "invalid component ID"], clock)
              ELSE IF Failed(res.err)
              THEN Resume([r1 EXCEPT !.err = res.err], clock)
              ELSE [r1 EXCEPT !.component = res.component, !.pc = "DeleteComponent.repo"]]
        /\ UNCHANGED <<bikes, components, cache, cacheSrc, clock, issued, nreq, ledger>>

\* DeleteComponent after the load: the DELETE
ComponentServiceDeleteComponentRepo(w) ==
    LET r == req[w]
        res == ComponentRepoDeleteComponent(UUIDParse(r.idstr).uuid, components)
        r1 == RepoCall(r, "DeleteComponent")
    IN  /\ r.pc = "DeleteComponent.repo"
        /\ components' = res.components
        /\ req' = [req EXCEPT ![w] =
              IF Failed(res.err)
              THEN Resume([r1 EXCEPT !.err = res.err], clock)
              ELSE [r1 EXCEPT !.pc = "DeleteComponent.inval"]]
        /\ UNCHANGED <<bikes, cache, cacheSrc, clock, issued, nreq, ledger>>

ComponentServiceDeleteComponentInval(w, ok) == ComponentInval(w, "DeleteComponent.inval", ok)

\* a cache entry outlives its time to live and is dropped
CacheExpire(key) ==
    /\ key \in DOMAIN cache
    /\ cache' = Without(cache, {key})
    /\ cacheSrc' = Without(cacheSrc, {key})
    /\ UNCHANGED <<bikes, components, clock, issued, req, nreq, ledger>>

\* GetBikeWithUser failing the request when the user service does
UserClientGetUsersIDRequired(w, ok) ==
    /\ req[w].pc = "GetUsersID"
    /\ req' = [req EXCEPT ![w] =
          IF ok THEN Respond([@ EXCEPT !.userInfo = TRUE], StatusOK)
          ELSE Respond(@, StatusInternalServerError)]
    /\ UNCHANGED <<bikes, components, cache, cacheSrc, clock, issued, nreq, ledger>>

\* GetBikeWithUser after the ownership check: the user-service call, which may fail
UserClientGetUsersID(w, ok) ==
    /\ req[w].pc = "GetUsersID"
    /\ req' = [req EXCEPT ![w] = Respond([@ EXCEPT !.userInfo = ok], StatusOK)]
    /\ UNCHANGED <<bikes, components, cache, cacheSrc, clock, issued, nreq, ledger>>

\* a caller computes the derived values of component c for a bike mileage:
\* c.CurrentMileage(bikeMileage) and c.NeedsReplacement(bikeMileage)
ComponentDerive(w, c, bikeMileage, max) ==
    /\ Free(w)
    /\ nreq < max
    /\ nreq' = nreq + 1
    /\ req' = [req EXCEPT ![w] =
          [IdleReq EXCEPT
             !.op = "NeedsReplacement", !.pc = "done",
             !.component = c, !.bike.mileage = bikeMileage,
             !.derived = [current_mileage |-> CurrentMileage(c, bikeMileage),
                          needs_replacement |-> NeedsReplacement(c, bikeMileage)]]]
    /\ UNCHANGED <<bikes, components, cache, cacheSrc, clock, issued, ledger>>

(***************************************************************************)
(* Requests.  A free worker takes the next request: a direct call of a      *)
(* service operation, or an HTTP request routed to its handler.             *)
(***************************************************************************)
Take(w, r, max) ==
    /\ Free(w)
    /\ nreq < max
    /\ nreq' = nreq + 1
    /\ req' = [req EXCEPT ![w] =
          [r EXCEPT !.arrival = [bikes |-> DOMAIN bikes, components |-> DOMAIN components]]]
    /\ UNCHANGED <<bikes, components, cache, cacheSrc, clock, issued, ledger>>

CallBikeService(w, op, s, bike, max) ==
    Take(w, Call([IdleReq EXCEPT !.bike = bike], op, s), max)

CallComponentService(w, op, s, component, max) ==
    Take(w, Call([IdleReq EXCEPT !.component = component], op, s), max)

HTTPRequest(w, handler, payload, pathId, json, bodyBikeId, bodyBike, bodyComponent, max) ==
    Take(w, HandlerStart([IdleReq EXCEPT !.handler = handler, !.payload = payload,
                                         !.pathId = pathId, !.bodyJson = json,
                                         !.bodyBikeId = bodyBikeId,
                                         !.bodyBike = bodyBike,
                                         !.bodyComponent = bodyComponent]), max)

\* the RPC GetBikes: req.GetUserId() goes to the service as it comes
GRPCGetBikes(w, userId, max) ==
    Take(w, Call([IdleReq EXCEPT !.handler = "GetBikes"], "GetBikesByUserID", userId), max)

\* one step of worker w inside BikeService; cacheOk: the outcomes a cache call may have
BikeServiceStep(w, cacheOk) ==
    \/ \E ok \in cacheOk : BikeServiceGetBikeByID(w, ok)
    \/ BikeServiceGetBikeByIDRepo(w)
    \/ \E ok \in cacheOk : BikeServiceGetBikeByIDSet(w, ok)
    \/ BikeServiceUpdateBike(w)
    \/ \E ok \in cacheOk : BikeServiceUpdateBikeInval(w, ok)
    \/ BikeServiceDeleteBike(w)
    \/ \E ok \in cacheOk : BikeServiceDeleteBikeInval(w, ok)

\* the steps of BikeService that never touch the cache
BikeServiceUncachedStep(w) ==
    \/ BikeServiceCreateBike(w)
    \/ BikeServiceGetBikesByUserID(w)
    \/ BikeServiceGetBikeWithComponents(w)
    \/ \E ok \in BOOLEAN : BikeServiceGetBikeWithComponentsList(w, ok)

\* one step of worker w inside ComponentService
ComponentServiceStep(w, cacheOk) ==
    \/ ComponentServiceCreateComponent(w)
    \/ \E ok \in cacheOk : ComponentServiceCreateComponentInval(w, ok)
    \/ ComponentServiceGetComponentByID(w)
    \/ ComponentServiceUpdateComponent(w)
    \/ \E ok \in cacheOk : ComponentServiceUpdateComponentInval(w, ok)
    \/ ComponentServiceDeleteComponent(w)
    \/ ComponentServiceDeleteComponentRepo(w)
    \/ \E ok \in cacheOk : ComponentServiceDeleteComponentInval(w, ok)

(***************************************************************************)
(* The store a run starts from: bike 1 of user 1 with component 1.          *)
(***************************************************************************)
Bike1 ==
    [user_id |-> 1, bike_id |-> 1, bike_name |-> "commuter", type |-> "mtb",
     model |-> "stels", year |-> 2020, mileage |-> 500,
     created_at |-> 1, updated_at |-> 1]

Component1 ==
    [id |-> 1, bike_id |-> 1, name |-> "frame", brand |-> "acme", model |-> "x1",
     installed_at |-> 1, installed_mileage |-> 100, max_mileage |-> 400,
     created_at |-> 2, updated_at |-> 2]

InitWith(bike1, component1) ==
    /\ bikes = [b \in {1} |-> bike1]
    /\ components = [c \in {1} |-> component1]
    /\ cache = [k \in {} |-> 0]
    /\ cacheSrc = [k \in {} |-> {}]
    /\ clock = 3
    /\ issued = [bikes |-> {1}, components |-> {1}]
    /\ req = [w \in Workers |-> IdleReq]
    /\ nreq = 0
    /\ ledger = [owner |-> [b \in {1} |-> 1], parent |-> [c \in {1} |-> 1],
                 invalFailed |-> FALSE]

Init == InitWith(Bike1, Component1)

(***************************************************************************)
(* Spec: the services called one request at a time by a single worker.      *)
(***************************************************************************)
IdStrings(ids) == {<<f, n>> : f \in IdForms, n \in ids} \cup {BadId}

BikeUpdates ==
    {[ZeroBike EXCEPT !.bike_id = b, !.user_id = 1, !.mileage = m, !.type = t] :
        b \in BikeIds, m \in {0, 750}, t \in {"", "road", "tandem"}}

BikeCreates ==
    {[ZeroBike EXCEPT !.bike_id = b, !.user_id = 2, !.type = t, !.mileage = 10] :
        b \in {NilUUID, 1, 2}, t \in {"bmx", "tandem"}}

ComponentCreates ==
    {[ZeroComponent EXCEPT !.id = c, !.bike_id = b, !.name = n, !.installed_at = 2,
                           !.max_mileage = 300] :
        c \in {NilUUID, 1, 2}, b \in BikeIds, n \in {"wheels", "pedals"}}

ComponentUpdates ==
    {[ZeroComponent EXCEPT !.id = c, !.bike_id = b, !.name = "wheels",
                           !.installed_at = 2, !.max_mileage = m] :
        c \in ComponentIds, b \in BikeIds, m \in {0, 900}}

Next ==
    \/ \E s \in IdStrings(BikeIds) :
          CallBikeService("w1", "GetBikeByID", s, ZeroBike, MaxRequests)
    \/ \E b \in BikeCreates : CallBikeService("w1", "CreateBike", BadId, b, MaxRequests)
    \/ \E b \in BikeUpdates : CallBikeService("w1", "UpdateBike", BadId, b, MaxRequests)
    \/ \E s \in IdStrings(BikeIds) :
          CallBikeService("w1", "DeleteBike", s, ZeroBike, MaxRequests)
    \/ \E s \in IdStrings(Users) :
          CallBikeService("w1", "GetBikesByUserID", s, ZeroBike, MaxRequests)
    \/ \E s \in IdStrings(BikeIds) :
          CallBikeService("w1", "GetBikeWithComponents", s, ZeroBike, MaxRequests)
    \/ \E c \in ComponentCreates :
          CallComponentService("w1", "CreateComponent", BadId, c, MaxRequests)
    \/ \E s \in IdStrings(ComponentIds) :
          CallComponentService("w1", "GetComponentByID", s, ZeroComponent, MaxRequests)
    \/ \E c \in ComponentUpdates :
          CallComponentService("w1", "UpdateComponent", BadId, c, MaxRequests)
    \/ \E s \in IdStrings(ComponentIds) :
          CallComponentService("w1", "DeleteComponent", s, ZeroComponent, MaxRequests)
    \/ BikeServiceStep("w1", BOOLEAN)
    \/ BikeServiceUncachedStep("w1")
    \/ ComponentServiceStep("w1", BOOLEAN)
    \/ \E k \in DOMAIN cache : CacheExpire(k)

Spec == Init /\ [][Next]_vars

(***************************************************************************)
(* SpecMerge: one worker updating a stored bike and a stored component,     *)
(* with every combination of set and unset input fields.                    *)
(***************************************************************************)
MaxMergeRequests == 1

InitMerge ==
    \E m \in {0, 500}, im \in {0, 100} :
        InitWith([Bike1 EXCEPT !.mileage = m],
                 [Component1 EXCEPT !.installed_mileage = im])

BikeMergeInputs ==
    {[ZeroBike EXCEPT !.bike_id = b, !.user_id = u, !.bike_name = n, !.type = t,
                      !.model = mo, !.year = y, !.mileage = mi] :
        b \in BikeIds, u \in {2}, n \in {"", "racer"}, t \in {"", "road", "tandem"},
        mo \in {"", "merida"}, y \in {0, 2024}, mi \in {0, 750}}

ComponentMergeInputs ==
    {[ZeroComponent EXCEPT !.id = c, !.bike_id = b, !.name = n, !.brand = br,
                           !.model = mo, !.installed_at = at,
                           !.installed_mileage = im, !.max_mileage = mm] :
        c \in ComponentIds, b \in {2}, n \in {"", "wheels", "pedals"},
        br \in {"", "shimano"}, mo \in {"", "xt"}, at \in {ZeroTime, 2},
        im \in {0, 250}, mm \in {0, 900}}

NextMerge ==
    \/ \E b \in BikeMergeInputs :
          CallBikeService("w1", "UpdateBike", BadId, b, MaxMergeRequests)
    \/ \E c \in ComponentMergeInputs :
          CallComponentService("w1", "UpdateComponent", BadId, c, MaxMergeRequests)
    \/ BikeServiceUpdateBike("w1")
    \/ \E ok \in BOOLEAN : BikeServiceUpdateBikeInval("w1", ok)
    \/ ComponentServiceUpdateComponent("w1")
    \/ \E ok \in BOOLEAN : ComponentServiceUpdateComponentInval("w1", ok)

SpecMerge == InitMerge /\ [][NextMerge]_vars

(***************************************************************************)
(* SpecRace: two workers reading, updating and deleting bikes through       *)
(* BikeService at the same time; ids in canonical text, the cache reachable.*)
(***************************************************************************)
MaxRaceRequests == 3

CanonStrings(ids) == {UUIDString(n) : n \in ids}

RaceUpdates == {[ZeroBike EXCEPT !.bike_id = 1, !.user_id = 1, !.mileage = 750]}

NextRace ==
    \E w \in Workers :
        \/ \E s \in CanonStrings({1}) :
              CallBikeService(w, "GetBikeByID", s, ZeroBike, MaxRaceRequests)
        \/ \E b \in RaceUpdates :
              CallBikeService(w, "UpdateBike", BadId, b, MaxRaceRequests)
        \/ \E s \in CanonStrings({1}) :
              CallBikeService(w, "DeleteBike", s, ZeroBike, MaxRaceRequests)
        \/ BikeServiceStep(w, {TRUE})

SpecRace == Init /\ [][NextRace]_vars

(***************************************************************************)
(* SpecHttp: two workers serving HTTP requests of the owner of bike 1, of   *)
(* another user, of an administrator and of a caller without identity.      *)
(***************************************************************************)
MaxHttpRequests == 2

Payloads ==
    {NoPayload,
     [exists |-> TRUE, user_id |-> 1, role |-> AppUser],
     [exists |-> TRUE, user_id |-> 2, role |-> AppUser],
     [exists |-> TRUE, user_id |-> 2, role |-> Admin]}

BikeBodies == {[ZeroBike EXCEPT !.model = "merida", !.type = "road", !.mileage = 750]}

ComponentBodies ==
    {[ZeroComponent EXCEPT !.name = "wheels", !.installed_mileage = 250,
                           !.max_mileage = 900]}

\* a body that binds; for the create handlers also one that does not
Bodies(handler) == IF handler \in {"CreateBike", "CreateComponent"} THEN BOOLEAN ELSE {TRUE}

HTTP(w, handler, pathId, bodyBikeId) ==
    \E p \in Payloads, json \in Bodies(handler), b \in BikeBodies, c \in ComponentBodies :
        HTTPRequest(w, handler, p, pathId, json, bodyBikeId, b, c, MaxHttpRequests)

\* a caller of ComponentService.UpdateComponent other than the HTTP handler
HttpComponentUpdates == {c \in ComponentUpdates : c.id = 1 /\ c.bike_id = 1}

\* the ids a request names: the mutating handlers are aimed at every id, the
\* reading handlers at the bike and the component of the initial store
Targets(handler, ids) ==
    IF handler \in {"UpdateBike", "DeleteBike", "CreateComponent", "DeleteComponent"}
    THEN ids ELSE {1}

NextHttp ==
    \E w \in Workers :
        \/ HTTP(w, "CreateBike", EmptyId, EmptyId)
        \/ HTTP(w, "GetMyBikes", EmptyId, EmptyId)
        \/ \E h \in {"GetBike", "UpdateBike", "DeleteBike", "GetBikeWithComponents",
                     "GetBikeWithUser"} :
              \E n \in Targets(h, BikeIds) : HTTP(w, h, UUIDString(n), EmptyId)
        \/ \E n \in Targets("CreateComponent", BikeIds) :
              HTTP(w, "CreateComponent", EmptyId, UUIDString(n))
        \/ \E h \in {"GetComponent", "UpdateComponent", "DeleteComponent"} :
              \E n \in Targets(h, ComponentIds) : HTTP(w, h, UUIDString(n), EmptyId)
        \/ \E c \in HttpComponentUpdates :
              CallComponentService(w, "UpdateComponent", BadId, c, MaxHttpRequests)
        \/ BikeServiceStep(w, {TRUE})
        \/ BikeServiceUncachedStep(w)
        \/ ComponentServiceStep(w, {TRUE})
        \/ \E ok \in BOOLEAN : UserClientGetUsersID(w, ok)

SpecHttp == Init /\ [][NextHttp]_vars

(***************************************************************************)
(* SpecData: one worker; the entities and id strings a caller can hand to   *)
(* the services, unset, out of range and malformed ones included.           *)
(***************************************************************************)
MaxDataRequests == 2

\* a user id under which the user service has no account
StrangerId == 3

DataIdStrings == {<<"canon", 1>>, BadId, EmptyId}

DataBikeCreates ==
    {[ZeroBike EXCEPT !.user_id = u, !.bike_name = "gravel", !.type = t,
                      !.year = 2021, !.mileage = m] :
        u \in {NilUUID, 1, StrangerId}, t \in {"road", "tandem"}, m \in {-5, 10}}

DataBikeUpdates ==
    {[ZeroBike EXCEPT !.bike_id = 1, !.user_id = 1, !.type = t, !.mileage = m] :
        t \in {"", "bmx", "tandem"}, m \in {-7, 0, 750}}

DataComponentCreates ==
    {[ZeroComponent EXCEPT !.bike_id = b, !.name = n, !.installed_at = 2,
                           !.installed_mileage = i, !.max_mileage = m] :
        b \in {NilUUID, 1}, n \in {"", "wheels", "pedals"}, i \in {-1, 250},
        m \in {0, 900, MaxMileageMax + 1}}

DataComponentUpdates ==
    {[ZeroComponent EXCEPT !.id = 1, !.bike_id = 1, !.name = n, !.installed_at = 2,
                           !.installed_mileage = i, !.max_mileage = m] :
        n \in {"wheels", "pedals"}, i \in {-1, 0}, m \in {900, MaxMileageMax + 1}}

NextData ==
    \/ \E s \in DataIdStrings :
          CallBikeService("w1", "GetBikeByID", s, ZeroBike, MaxDataRequests)
    \/ \E b \in DataBikeCreates :
          CallBikeService("w1", "CreateBike", BadId, b, MaxDataRequests)
    \/ \E b \in DataBikeUpdates :
          CallBikeService("w1", "UpdateBike", BadId, b, MaxDataRequests)
    \/ \E s \in DataIdStrings :
          CallBikeService("w1", "DeleteBike", s, ZeroBike, MaxDataRequests)
    \/ \E s \in DataIdStrings :
          CallBikeService("w1", "GetBikesByUserID", s, ZeroBike, MaxDataRequests)
    \/ \E s \in DataIdStrings :
          CallBikeService("w1", "GetBikeWithComponents", s, ZeroBike, MaxDataRequests)
    \/ \E c \in DataComponentCreates :
          CallComponentService("w1", "CreateComponent", BadId, c, MaxDataRequests)
    \/ \E s \in DataIdStrings :
          CallComponentService("w1", "GetComponentByID", s, ZeroComponent,
                               MaxDataRequests)
    \/ \E c \in DataComponentUpdates :
          CallComponentService("w1", "UpdateComponent", BadId, c, MaxDataRequests)
    \/ \E s \in DataIdStrings :
          CallComponentService("w1", "DeleteComponent", s, ZeroComponent,
                               MaxDataRequests)
    \/ BikeServiceStep("w1", {TRUE})
    \/ BikeServiceUncachedStep("w1")
    \/ ComponentServiceStep("w1", {TRUE})

SpecData == Init /\ [][NextData]_vars

(***************************************************************************)
(* SpecCache: one worker reading, updating and deleting bikes over a cache  *)
(* whose calls may fail.  The cache outlives the service: at the start it   *)
(* is empty, or holds under bike 1's key the bike as stored, or bytes that  *)
(* do not decode to a Bike.                                                 *)
(***************************************************************************)
MaxCacheRequests == 3

Bike1Key == CacheKey(UUIDString(1))

UndecodableBike == [JSONMarshalBike(ScanBike(Bike1)) EXCEPT !.user_id = BadId]

InitialEntries ==
    {[data |-> JSONMarshalBike(ScanBike(Bike1)), ttl |-> CacheTTLMinutes, src |-> {Bike1}],
     [data |-> UndecodableBike, ttl |-> CacheTTLMinutes, src |-> {}]}

InitCache ==
    /\ bikes = [b \in {1} |-> Bike1]
    /\ components = [c \in {1} |-> Component1]
    /\ \/ cache = [k \in {} |-> 0] /\ cacheSrc = [k \in {} |-> {}]
       \/ \E e \in InitialEntries :
             /\ cache = [k \in {Bike1Key} |-> [data |-> e.data, ttl |-> e.ttl]]
             /\ cacheSrc = [k \in {Bike1Key} |-> e.src]
    /\ clock = 3
    /\ issued = [bikes |-> {1}, components |-> {1}]
    /\ req = [w \in Workers |-> IdleReq]
    /\ nreq = 0
    /\ ledger = [owner |-> [b \in {1} |-> 1], parent |-> [c \in {1} |-> 1],
                 invalFailed |-> FALSE]

CacheUpdates ==
    {[ZeroBike EXCEPT !.bike_id = 1, !.user_id = 1, !.mileage = m] : m \in {750, 800}}

NextCache ==
    \/ \E s \in IdStrings({1}) :
          CallBikeService("w1", "GetBikeByID", s, ZeroBike, MaxCacheRequests)
    \/ \E b \in CacheUpdates :
          CallBikeService("w1", "UpdateBike", BadId, b, MaxCacheRequests)
    \/ \E s \in CanonStrings({1}) :
          CallBikeService("w1", "DeleteBike", s, ZeroBike, MaxCacheRequests)
    \/ BikeServiceStep("w1", BOOLEAN)
    \/ \E k \in DOMAIN cache : CacheExpire(k)

SpecCache == InitCache /\ [][NextCache]_vars

(***************************************************************************)
(* SpecNoCache: one worker calling every service operation over a cache     *)
(* that is down: each Get, Set and Delete fails.                            *)
(***************************************************************************)
MaxNoCacheRequests == 2

NextNoCache ==
    \/ \E s \in IdStrings(BikeIds) :
          CallBikeService("w1", "GetBikeByID", s, ZeroBike, MaxNoCacheRequests)
    \/ \E b \in BikeCreates :
          CallBikeService("w1", "CreateBike", BadId, b, MaxNoCacheRequests)
    \/ \E b \in BikeUpdates :
          CallBikeService("w1", "UpdateBike", BadId, b, MaxNoCacheRequests)
    \/ \E s \in IdStrings(BikeIds) :
          CallBikeService("w1", "DeleteBike", s, ZeroBike, MaxNoCacheRequests)
    \/ \E s \in IdStrings(Users) :
          CallBikeService("w1", "GetBikesByUserID", s, ZeroBike, MaxNoCacheRequests)
    \/ \E s \in IdStrings(BikeIds) :
          CallBikeService("w1", "GetBikeWithComponents", s, ZeroBike, MaxNoCacheRequests)
    \/ \E c \in ComponentCreates :
          CallComponentService("w1", "CreateComponent", BadId, c, MaxNoCacheRequests)
    \/ \E s \in IdStrings(ComponentIds) :
          CallComponentService("w1", "GetComponentByID", s, ZeroComponent,
                               MaxNoCacheRequests)
    \/ \E c \in ComponentUpdates :
          CallComponentService("w1", "UpdateComponent", BadId, c, MaxNoCacheRequests)
    \/ \E s \in IdStrings(ComponentIds) :
          CallComponentService("w1", "DeleteComponent", s, ZeroComponent,
                               MaxNoCacheRequests)
    \/ BikeServiceStep("w1", {FALSE})
    \/ BikeServiceUncachedStep("w1")
    \/ ComponentServiceStep("w1", {FALSE})
    \/ \E k \in DOMAIN cache : CacheExpire(k)

SpecNoCache == InitCache /\ [][NextNoCache]_vars

(***************************************************************************)
(* SpecUpdates: two workers, each updating bike 1 once or more, their        *)
(* UPDATE statements and invalidations interleaved.  A request keeps the     *)
(* entity it was called with in bodyBike.                                   *)
(***************************************************************************)
MaxUpdateRequests == 2

ConcurrentUpdates ==
    {[ZeroBike EXCEPT !.bike_id = 1, !.mileage = 750],
     [ZeroBike EXCEPT !.bike_id = 1, !.type = "road"],
     [ZeroBike EXCEPT !.bike_id = 1, !.type = "bmx", !.mileage = 800]}

NextUpdates ==
    \E w \in Workers :
        \/ \E b \in ConcurrentUpdates :
              Take(w, Call([IdleReq EXCEPT !.bike = b, !.bodyBike = b],
                           "UpdateBike", BadId), MaxUpdateRequests)
        \/ BikeServiceUpdateBike(w)
        \/ BikeServiceUpdateBikeInval(w, TRUE)

SpecUpdates == Init /\ [][NextUpdates]_vars

(***************************************************************************)
(* SpecDerived: the derived values of a stored component, computed for      *)
(* bike mileages below, at and above the point of replacement.              *)
(***************************************************************************)
MaxDerivedRequests == 2

InitDerived ==
    \E im \in {0, 100}, mm \in {MaxMileageMin, 400, MaxMileageMax} :
        InitWith(Bike1, [Component1 EXCEPT !.installed_mileage = im,
                                           !.max_mileage = mm])

BikeMileages == {-5, 0, 1, 100, 101, 400, 499, 500, 501, MaxMileageMax, MaxMileageMax + 100}

NextDerived ==
    \E c \in DOMAIN components, m \in BikeMileages :
        ComponentDerive("w1", components[c], m, MaxDerivedRequests)

SpecDerived == InitDerived /\ [][NextDerived]_vars

(***************************************************************************)
(* SpecScenario: one caller creates a bike of type mtb with mileage 500,    *)
(* updates it with mileage and year set or left at 0, creates a component   *)
(* on it and asks for the component's derived values.                       *)
(***************************************************************************)
MaxScenarioRequests == 4

ScenarioBike ==
    [ZeroBike EXCEPT !.user_id = 1, !.bike_name = "trail", !.type = "mtb",
                     !.year = 2022, !.mileage = 500]

ScenarioUpdates ==
    {[ZeroBike EXCEPT !.bike_id = 2, !.year = y, !.mileage = m] :
        y \in {0, 2024}, m \in {0, 900}}

ScenarioComponent ==
    [ZeroComponent EXCEPT !.bike_id = 2, !.name = "frame", !.installed_at = 2,
                          !.installed_mileage = 100, !.max_mileage = 400]

NextScenario ==
    \/ CallBikeService("w1", "CreateBike", BadId, ScenarioBike, MaxScenarioRequests)
    \/ \E b \in ScenarioUpdates :
          CallBikeService("w1", "UpdateBike", BadId, b, MaxScenarioRequests)
    \/ CallComponentService("w1", "CreateComponent", BadId, ScenarioComponent,
                            MaxScenarioRequests)
    \/ \E c \in DOMAIN components :
          /\ components[c].bike_id \in DOMAIN bikes
          /\ ComponentDerive("w1", components[c], bikes[components[c].bike_id].mileage,
                             MaxScenarioRequests)
    \/ BikeServiceCreateBike("w1")
    \/ BikeServiceUpdateBike("w1")
    \/ BikeServiceUpdateBikeInval("w1", TRUE)
    \/ ComponentServiceCreateComponent("w1")
    \/ ComponentServiceCreateComponentInval("w1", TRUE)

SpecScenario == Init /\ [][NextScenario]_vars

(***************************************************************************)
(* SpecGrpc: the RPC GetBikes called for users with no, one or two bikes,   *)
(* with well-formed and malformed user ids, between creations and           *)
(* deletions of bikes; the list query may fail.                             *)
(***************************************************************************)
MaxGrpcRequests == 3

GrpcUserIds == {<<"canon", 1>>, <<"canon", 2>>, <<"canon", StrangerId>>, BadId, EmptyId}

GrpcBikeCreates ==
    {[ZeroBike EXCEPT !.user_id = u, !.type = "road", !.model = m, !.mileage = 120] :
        u \in Users, m \in {"", "tarmac"}}

NextGrpc ==
    \/ \E s \in GrpcUserIds : GRPCGetBikes("w1", s, MaxGrpcRequests)
    \/ \E b \in GrpcBikeCreates :
          CallBikeService("w1", "CreateBike", BadId, b, MaxGrpcRequests)
    \/ \E s \in {<<"canon", 1>>, <<"canon", 2>>} :
          CallBikeService("w1", "DeleteBike", s, ZeroBike, MaxGrpcRequests)
    \/ BikeServiceGetBikesByUserID("w1")
    \/ BikeServiceGetBikesByUserIDQueryFails("w1")
    \/ BikeServiceCreateBike("w1")
    \/ BikeServiceDeleteBike("w1")
    \/ BikeServiceDeleteBikeInval("w1", TRUE)

SpecGrpc == Init /\ [][NextGrpc]_vars

(***************************************************************************)
(* SpecInputs: one worker sends HTTP requests whose path and body ids are   *)
(* well-formed or malformed and whose bodies carry mileages set or 0.       *)
(***************************************************************************)
MaxInputRequests == 2

InputIds == {<<"canon", 1>>, <<"canon", 2>>, BadId}

InputBikeBodies ==
    {[ZeroBike EXCEPT !.model = "merida", !.type = "road", !.mileage = m] : m \in {0, 750}}

InputComponentBodies ==
    {[ZeroComponent EXCEPT !.name = "wheels", !.installed_mileage = m,
                           !.max_mileage = 900] : m \in {0, 250}}

HTTPInput(w, handler, pathId, bodyBikeId) ==
    \E p \in Payloads, json \in Bodies(handler), b \in InputBikeBodies,
       c \in InputComponentBodies :
        HTTPRequest(w, handler, p, pathId, json, bodyBikeId, b, c, MaxInputRequests)

NextInputs ==
    \/ HTTPInput("w1", "CreateBike", EmptyId, EmptyId)
    \/ HTTPInput("w1", "GetMyBikes", EmptyId, EmptyId)
    \/ \E h \in {"GetBike", "UpdateBike", "DeleteBike", "GetBikeWithComponents",
                 "GetBikeWithUser", "GetComponent", "UpdateComponent",
                 "DeleteComponent"} :
          \E s \in InputIds : HTTPInput("w1", h, s, EmptyId)
    \/ \E s \in InputIds : HTTPInput("w1", "CreateComponent", EmptyId, s)
    \/ \E c \in HttpComponentUpdates :
          CallComponentService("w1", "UpdateComponent", BadId, c, MaxInputRequests)
    \/ BikeServiceStep("w1", {TRUE})
    \/ BikeServiceUncachedStep("w1")
    \/ ComponentServiceStep("w1", {TRUE})
    \/ \E ok \in BOOLEAN : UserClientGetUsersID("w1", ok)

SpecInputs == Init /\ [][NextInputs]_vars

(***************************************************************************)
(* SpecFrame: one worker updates bikes and components with inputs that      *)
(* carry another owner, another parent bike and a creation time, between    *)
(* creations and deletions.                                                 *)
(***************************************************************************)
MaxFrameRequests == 3

FrameBikeUpdates ==
    {[ZeroBike EXCEPT !.bike_id = b, !.user_id = u, !.mileage = 750, !.created_at = t] :
        b \in BikeIds, u \in {NilUUID, 1, 2}, t \in {ZeroTime, 9}}

FrameComponentUpdates ==
    {[ZeroComponent EXCEPT !.id = 1, !.bike_id = b, !.name = "wheels",
                           !.installed_at = 2, !.max_mileage = 900, !.created_at = t] :
        b \in BikeIds, t \in {ZeroTime, 9}}

FrameBikeCreate == [ZeroBike EXCEPT !.user_id = 2, !.type = "bmx", !.mileage = 10]

NextFrame ==
    \/ \E b \in FrameBikeUpdates :
          Take("w1", Call([IdleReq EXCEPT !.bike = b, !.bodyBike = b], "UpdateBike", BadId),
               MaxFrameRequests)
    \/ \E c \in FrameComponentUpdates :
          Take("w1", Call([IdleReq EXCEPT !.component = c, !.bodyComponent = c],
                          "UpdateComponent", BadId),
               MaxFrameRequests)
    \/ CallBikeService("w1", "CreateBike", BadId, FrameBikeCreate, MaxFrameRequests)
    \/ \E n \in BikeIds :
          CallBikeService("w1", "DeleteBike", UUIDString(n), ZeroBike, MaxFrameRequests)
    \/ BikeServiceUpdateBike("w1")
    \/ BikeServiceUpdateBikeInval("w1", TRUE)
    \/ BikeServiceCreateBike("w1")
    \/ BikeServiceDeleteBike("w1")
    \/ BikeServiceDeleteBikeInval("w1", TRUE)
    \/ ComponentServiceUpdateComponent("w1")
    \/ ComponentServiceUpdateComponentInval("w1", TRUE)

SpecFrame == Init /\ [][NextFrame]_vars

(***************************************************************************)
(* SpecDeletes: two workers delete bikes and components of a store with two *)
(* bikes and three components, their steps interleaved; a cache call may    *)
(* fail.                                                                    *)
(***************************************************************************)
MaxDeleteRequests == 2

Bike2 == [Bike1 EXCEPT !.bike_id = 2, !.user_id = 2, !.bike_name = "racer"]

Component2 == [Component1 EXCEPT !.id = 2, !.name = "wheels"]

Component3 == [Component1 EXCEPT !.id = 3, !.bike_id = 2]

DeletesBikes == [b \in {1, 2} |-> IF b = 1 THEN Bike1 ELSE Bike2]

DeletesComponents ==
    [c \in {1, 2, 3} |-> IF c = 1 THEN Component1 ELSE IF c = 2 THEN Component2 ELSE Component3]

InitDeletes ==
    /\ bikes = DeletesBikes
    /\ components = DeletesComponents
    /\ cache = [k \in {} |-> 0]
    /\ cacheSrc = [k \in {} |-> {}]
    /\ clock = 3
    /\ issued = [bikes |-> {1, 2}, components |-> {1, 2, 3}]
    /\ req = [w \in Workers |-> IdleReq]
    /\ nreq = 0
    /\ ledger = [owner |-> [b \in {1, 2} |-> b],
                 parent |-> [c \in {1, 2, 3} |-> IF c = 3 THEN 2 ELSE 1],
                 invalFailed |-> FALSE]

NextDeletes ==
    \E w \in Workers :
        \/ \E s \in CanonStrings({1, 2}) :
              CallBikeService(w, "DeleteBike", s, ZeroBike, MaxDeleteRequests)
        \/ \E s \in CanonStrings({1, 3}) :
              CallComponentService(w, "DeleteComponent", s, ZeroComponent, MaxDeleteRequests)
        \/ BikeServiceDeleteBike(w)
        \/ \E ok \in BOOLEAN : BikeServiceDeleteBikeInval(w, ok)
        \/ ComponentServiceDeleteComponent(w)
        \/ ComponentServiceDeleteComponentRepo(w)
        \/ \E ok \in BOOLEAN : ComponentServiceDeleteComponentInval(w, ok)

SpecDeletes == InitDeletes /\ [][NextDeletes]_vars

(***************************************************************************)
(* Properties.                                                             *)
(***************************************************************************)
\* a completed call of service operation op, made directly or by a handler
Returned(w, op) == req[w].pc = "done" /\ req[w].op = op /\ req[w].handler = ""

\* the cached bytes under key k decode to the row storage holds now
Coherent(k) ==
    LET dec == JSONUnmarshalBike(cache[k].data)
    IN  /\ ~dec.err
        /\ dec.bike.bike_id \in DOMAIN bikes
        /\ dec.bike = ScanBike(bikes[dec.bike.bike_id])

\* C1: a bike that GetBikeByID returns from the cache equals, field for field,
\* a record that storage held for that id at the moment the entry was written.
\* Checked under SpecRace, where reads run beside updates and deletes.
CachedBikeWasStoredAtWrite ==
    \A w \in Workers :
        (Returned(w, "GetBikeByID") /\ req[w].fromCache)
            => req[w].bike \in {ScanBike(row) : row \in req[w].hitSrc}

\* C2: with requests run one at a time and no invalidation having failed, a
\* completed GetBikeByID returns what storage holds now: the stored record of
\* the bike, or an error when no row has the id, whatever accepted textual
\* form of the id the reads and writes used.
ReadAfterWriteIsFresh ==
    LET r == req["w1"]
        id == UUIDParse(r.idstr)
    IN  (Returned("w1", "GetBikeByID") /\ ~id.err /\ ~ledger.invalFailed)
            => IF id.uuid \in DOMAIN bikes
               THEN r.err = "" /\ r.bike = ScanBike(bikes[id.uuid])
               ELSE r.err # ""

\* C3: when every cache operation succeeds and all requests have completed,
\* every cache entry left behind by interleaved GetBikeByID, UpdateBike and
\* DeleteBike calls equals the row currently in storage.
QuiescentCacheMatchesStorage ==
    (\A w \in Workers : Free(w)) => \A k \in DOMAIN cache : Coherent(k)

\* C7: DeleteBike of an id with no stored row fails with "Bike not found" and
\* changes neither table; DeleteBike of a stored bike removes that bike and
\* every component whose bike_id is that bike, and leaves every other bike
\* and component as it was.
DeleteBikeRemovesBikeAndItsComponents ==
    [][\A w \in Workers :
         LET r == req[w]
             id == UUIDParse(r.idstr)
         IN  (r.pc = "DeleteBike" /\ req'[w].pc # "DeleteBike" /\ ~id.err)
                 => IF id.uuid \notin DOMAIN bikes
                    THEN /\ req'[w].err = "Bike not found"
                         /\ bikes' = bikes
                         /\ components' = components
                    ELSE /\ req'[w].err = ""
                         /\ bikes' = [b \in DOMAIN bikes \ {id.uuid} |-> bikes[b]]
                         /\ components' =
                               [c \in {x \in DOMAIN components :
                                           components[x].bike_id # id.uuid}
                                   |-> components[c]]]_vars

\* C7 witness: bike 1 was deleted and took component 1 with it, while bike 2
\* and its component 2 are still stored.
DeleteBikeLeftTheOthers ==
    /\ Returned("w1", "DeleteBike") /\ req["w1"].err = ""
    /\ UUIDParse(req["w1"].idstr).uuid = 1
    /\ DOMAIN bikes = {2}
    /\ DOMAIN components = {2}
    /\ components[2].bike_id = 2

\* the cache calls a successful mutation of component id must have made
OneDeleteOfParentKey(id) == << <<"Delete", CacheKey(UUIDString(ledger.parent[id]))>> >>

\* C10: a successful CreateComponent, UpdateComponent or DeleteComponent has
\* made exactly one cache call: a Delete of the key of the bike the stored
\* component belongs to; a failed one has made none.
ComponentMutationInvalidatesBikeKey ==
    \A w \in Workers :
        LET r == req[w]
        IN  /\ (r.pc = "done" /\ r.handler = ""
                  /\ r.op \in {"CreateComponent", "UpdateComponent"})
                => r.cacheOps = IF r.err = "" THEN OneDeleteOfParentKey(r.component.id)
                                ELSE <<>>
            /\ Returned(w, "DeleteComponent")
                => r.cacheOps = IF r.err = ""
                                THEN OneDeleteOfParentKey(UUIDParse(r.idstr).uuid)
                                ELSE <<>>

\* C10 witness: component 2 of bike 1 was deleted, and the one cache call was
\* the Delete of bike 1's key.
DeletedComponentOfAnotherNumber ==
    /\ Returned("w1", "DeleteComponent") /\ req["w1"].err = ""
    /\ UUIDParse(req["w1"].idstr).uuid = 2
    /\ ledger.parent[2] = 1
    /\ req["w1"].cacheOps = << <<"Delete", CacheKey(UUIDString(1))>> >>

\* the columns an update merges
BikeMergeFields == {"bike_name", "type", "model", "year", "mileage"}
ComponentMergeFields ==
    {"name", "brand", "model", "installed_at", "installed_mileage", "max_mileage"}

\* zero input keeps the stored value, non-zero input replaces it
Merged(input, zero, old, new, fields) ==
    \A f \in fields : new[f] = IF input[f] = zero[f] THEN old[f] ELSE input[f]

AcceptableComponentUpdate(c) ==
    /\ c.name \in ComponentNames \cup {""}
    /\ c.installed_mileage >= 0
    /\ c.max_mileage = 0 \/ c.max_mileage \in MaxMileageMin..MaxMileageMax

\* C9: ComponentService.UpdateComponent on a stored component, each input
\* field zero or acceptable: the call succeeds, and each of name, brand,
\* model, installed_at, installed_mileage and max_mileage keeps its stored
\* value when the input is zero and takes the input value otherwise.
UpdateComponentMerges ==
    [][\A w \in Workers :
         LET r == req[w]
             id == r.component.id
         IN  (r.pc = "UpdateComponent" /\ req'[w].pc # "UpdateComponent"
                /\ id \in DOMAIN components /\ AcceptableComponentUpdate(r.component))
                 => /\ req'[w].err = ""
                    /\ DOMAIN components' = DOMAIN components
                    /\ Merged(r.component, ZeroComponent, components[id],
                              components'[id], ComponentMergeFields)]_vars

BikeHandlers ==
    {"GetBike", "UpdateBike", "DeleteBike", "GetBikeWithComponents", "GetBikeWithUser"}
ComponentHandlers == {"GetComponent", "UpdateComponent", "DeleteComponent"}
MutatingCalls ==
    {"CreateBike", "UpdateBike", "DeleteBike",
     "CreateComponent", "UpdateComponent", "DeleteComponent"}

\* the bikes request r is aimed at: the bike of the path, the bike named in a
\* bound CreateComponent body, or the parent of the component of the path
TargetBikes(r) ==
    LET id == UUIDParse(r.pathId)
        bikeId == UUIDParse(r.bodyBikeId)
    IN  IF r.handler \in BikeHandlers
        THEN {b \in DOMAIN ledger.owner : ~id.err /\ b = id.uuid}
        ELSE IF r.handler = "CreateComponent"
        THEN {b \in DOMAIN ledger.owner :
                 /\ BindComponentRequest(r.bodyJson, r.bodyBikeId, r.bodyComponent)
                 /\ ~bikeId.err /\ b = bikeId.uuid}
        ELSE IF r.handler \in ComponentHandlers
        THEN {ledger.parent[c] : c \in {x \in DOMAIN ledger.parent : ~id.err /\ x = id.uuid}}
        ELSE {}

\* r comes from an authenticated non-admin who does not own the target bike
Intruder(r) ==
    /\ r.payload.exists /\ r.payload.role # Admin
    /\ \E b \in TargetBikes(r) : ledger.owner[b] # r.payload.user_id

\* the entity the path of r names, and its bike, were stored when r arrived
\* and still are
TargetStored(r) ==
    /\ TargetBikes(r) \subseteq DOMAIN bikes \cap r.arrival.bikes
    /\ r.handler \in ComponentHandlers =>
          UUIDParse(r.pathId).uuid \in DOMAIN components \cap r.arrival.components

RECURSIVE Elems(_)
Elems(seq) == IF seq = <<>> THEN {} ELSE {Head(seq)} \cup Elems(Tail(seq))

NoIdentityIsUnauthorizedFirst ==
    \A w \in Workers :
        LET r == req[w]
        IN  (r.handler # "" /\ ~r.payload.exists)
                => /\ r.pc = "done" /\ r.status = StatusUnauthorized
                   /\ r.svcCalls = <<>> /\ r.repoCalls = <<>> /\ r.cacheOps = <<>>

\* C5 witness: both workers turned away a request without identity, one for
\* DeleteComponent and one for GetBike.
TwoAnonymousRequestsRefused ==
    /\ req["w1"].handler = "DeleteComponent" /\ req["w2"].handler = "GetBike"
    /\ \A w \in Workers : ~req[w].payload.exists /\ req[w].status = StatusUnauthorized

\* C6: every stored component's bike_id is the id of a stored bike.
EveryComponentHasItsBike ==
    \A c \in DOMAIN components : components[c].bike_id \in DOMAIN bikes

\* C6 witness: a CreateComponent passed its parent lookup and ownership check,
\* the bike was deleted by the other worker, and the INSERT was refused.
CreateComponentLostTheRace ==
    \E w \in Workers :
        /\ req[w].handler = "CreateComponent" /\ req[w].pc = "done"
        /\ req[w].err = "bike does not exist"
        /\ req[w].status = StatusInternalServerError
        /\ 1 \notin DOMAIN bikes /\ components = <<>>

(***************************************************************************)
(* Failure paths of the write operations.                                   *)
(***************************************************************************)
WriteSteps ==
    {"UpdateBike", "DeleteBike", "CreateComponent", "UpdateComponent",
     "DeleteComponent.repo"}

InvalSteps ==
    {"UpdateBike.inval", "DeleteBike.inval", "CreateComponent.inval",
     "UpdateComponent.inval", "DeleteComponent.inval"}

\* the error of the storage write that the write step of r makes, "" when the
\* write succeeds or the step returns before it; q is the request after the step
WriteError(r, q) ==
    CASE r.pc = "UpdateBike" ->
           IF ValidateBike(r.bike)
           THEN BikeRepoUpdateBike(r.bike, bikes, clock).err ELSE ""
      [] r.pc = "DeleteBike" ->
           IF UUIDParse(r.idstr).err THEN ""
           ELSE BikeRepoDeleteBike(UUIDParse(r.idstr).uuid, bikes, components).err
      [] r.pc = "CreateComponent" ->
           IF ValidateComponent(r.component)
           THEN ComponentRepoCreateComponent(
                    [r.component EXCEPT !.id = q.component.id],
                    components, bikes, clock).err
           ELSE ""
      [] r.pc = "UpdateComponent" ->
           IF ValidateComponent(r.component)
           THEN ComponentRepoUpdateComponent(r.component, components, clock).err
           ELSE ""
      [] r.pc = "DeleteComponent.repo" ->
           ComponentRepoDeleteComponent(UUIDParse(r.idstr).uuid, components).err
      [] OTHER -> ""

\* C11: when the storage write of UpdateBike, DeleteBike, CreateComponent,
\* UpdateComponent or DeleteComponent fails (no row matched included), the call
\* ends with that error without reaching its invalidation: it makes no cache
\* call and the cache content is what it was before.
FailedWriteLeavesCacheAlone ==
    [][\A w \in Workers :
         LET r == req[w]
             q == req'[w]
         IN  (r.pc \in WriteSteps /\ q # r /\ WriteError(r, q) # "")
             => /\ cache' = cache
                /\ q.cacheOps = r.cacheOps
                /\ q.err = WriteError(r, q)
                /\ q.pc \notin InvalSteps]_vars

\* a DeleteComponent whose DELETE matched no row, the row having gone between
\* its load and its delete, returned with the cached bike still in place
DeleteComponentWriteFailed ==
    \E w \in Workers :
        /\ req[w].pc = "done" /\ req[w].op = "DeleteComponent"
        /\ req[w].err = "component not found"
        /\ Len(req[w].repoCalls) > 0
        /\ req[w].repoCalls[Len(req[w].repoCalls)] = "DeleteComponent"
        /\ DOMAIN cache # {}

(***************************************************************************)
(* Malformed identifiers and entities that fail validation.                 *)
(***************************************************************************)
IdOperations ==
    {"GetBikeByID", "GetBikesByUserID", "DeleteBike", "GetBikeWithComponents",
     "GetComponentByID", "DeleteComponent"}

\* the error a service operation returns for the input of r before it calls
\* anything, "" when the input passes
InputError(r) ==
    CASE r.pc \in {"GetBikeByID", "DeleteBike", "GetBikeWithComponents"}
           /\ UUIDParse(r.idstr).err -> "invalid bike ID"
      [] r.pc = "GetBikesByUserID" /\ UUIDParse(r.idstr).err -> "invalid user ID"
      [] r.pc \in {"GetComponentByID", "DeleteComponent"}
           /\ UUIDParse(r.idstr).err -> "invalid component ID"
      [] r.pc \in {"CreateBike", "UpdateBike"} /\ ~ValidateBike(r.bike) ->
           "validation error"
      [] r.pc \in {"CreateComponent", "UpdateComponent"}
           /\ ~ValidateComponent(r.component) -> "validation error"
      [] OTHER -> ""

\* C12: a service operation given a malformed id string, or an entity that
\* fails validation, returns the error at once: the step makes no storage call
\* and no cache call, and storage and cache are left as they were.
BadInputReturnsBeforeAnyCall ==
    [][\A w \in Workers :
         LET r == req[w]
             q == req'[w]
         IN  (q # r /\ r.pc = Entry(r.op) /\ InputError(r) # "")
             => /\ q.pc = "done"
                /\ q.err = InputError(r)
                /\ q.repoCalls = <<>> /\ q.cacheOps = <<>>
                /\ UNCHANGED <<bikes, components, cache>>]_vars

\* after a read that filled the cache, a CreateComponent of a component
\* without name was refused and called neither storage nor cache
BadInputWasRefused ==
    /\ Returned("w1", "CreateComponent")
    /\ req["w1"].component.name = ""
    /\ req["w1"].err = "validation error"
    /\ req["w1"].repoCalls = <<>> /\ req["w1"].cacheOps = <<>>
    /\ nreq = 2
    /\ DOMAIN cache # {}

(***************************************************************************)
(* GetBikeByID, cache aside.                                                *)
(***************************************************************************)
\* the Get of this step came back without error: the entry under key k is
\* there and the request q after the step records no failed cache call
GetFound(k, q) == k \in DOMAIN cache /\ ~q.cacheFailed

\* C14: GetBikeByID with a well-formed id whose cache entry exists and
\* deserialises returns that entry; it makes no storage read and no cache
\* write, its only cache call being the Get.
CacheHitReturnsTheEntry ==
    [][\A w \in Workers :
         LET r == req[w]
             q == req'[w]
             k == CacheKey(r.idstr)
         IN  (/\ r.pc = "GetBikeByID" /\ q # r
              /\ ~UUIDParse(r.idstr).err
              /\ GetFound(k, q)
              /\ ~JSONUnmarshalBike(cache[k].data).err)
             => /\ q.pc = "done" /\ q.err = ""
                /\ q.bike = JSONUnmarshalBike(cache[k].data).bike
                /\ q.repoCalls = <<>>
                /\ q.cacheOps = << <<"Get", k>> >>
                /\ UNCHANGED <<bikes, components, cache>>]_vars

\* a read answered from the cache with mileage 500 while storage holds another
\* mileage for the bike: storage was not read
HitDidNotReadStorage ==
    /\ Returned("w1", "GetBikeByID")
    /\ req["w1"].fromCache /\ req["w1"].repoCalls = <<>>
    /\ req["w1"].cacheOps = << <<"Get", Bike1Key>> >>
    /\ 1 \in DOMAIN bikes
    /\ req["w1"].bike.mileage = 500 /\ bikes[1].mileage = 750

\* C15: GetBikeByID on a cache miss, a failed Get or an undecodable entry
\* reads the bike from storage.  When storage returns the bike, the call
\* writes it to the cache under the bike's key with a 15-minute expiry and
\* returns it, and a failure of that write does not change the result.  When
\* the storage read fails, the call returns the error and writes nothing.
MissReadsStorageThenFillsCache ==
    [][\A w \in Workers :
         LET r == req[w]
             q == req'[w]
             k == CacheKey(r.idstr)
             id == UUIDParse(r.idstr).uuid
         IN  /\ (/\ r.pc = "GetBikeByID" /\ q # r
                  /\ ~UUIDParse(r.idstr).err
                  /\ \/ ~GetFound(k, q)
                     \/ JSONUnmarshalBike(cache[k].data).err)
                 => /\ q.pc = "GetBikeByID.repo"
                    /\ q.repoCalls = <<>>
                    /\ UNCHANGED <<bikes, cache>>
             /\ (r.pc = "GetBikeByID.repo" /\ q # r /\ id \in DOMAIN bikes)
                 => /\ q.pc = "GetBikeByID.set"
                    /\ q.bike = ScanBike(bikes[id])
                    /\ q.repoCalls = <<"GetBikeByID">>
                    /\ UNCHANGED <<bikes, cache>>
             /\ (r.pc = "GetBikeByID.repo" /\ q # r /\ id \notin DOMAIN bikes)
                 => /\ q.pc = "done" /\ q.err = "bike not found"
                    /\ q.cacheOps = << <<"Get", k>> >>
                    /\ UNCHANGED <<bikes, cache>>
             /\ (r.pc = "GetBikeByID.set" /\ q # r)
                 => /\ q.pc = "done" /\ q.err = "" /\ q.bike = r.bike
                    /\ q.cacheOps = << <<"Get", k>>, <<"Set", k>> >>
                    /\ UNCHANGED bikes
                    /\ \/ cache' = With(cache, k,
                                          [data |-> JSONMarshalBike(r.bike),
                                           ttl |-> CacheTTLMinutes])
                       \/ q.cacheFailed /\ cache' = cache]_vars

\* over bytes under the key that do not decode, a read returned the stored
\* bike although a cache call of it failed: the bytes are still there
UndecodableEntryWasBypassed ==
    /\ Returned("w1", "GetBikeByID")
    /\ req["w1"].err = "" /\ req["w1"].bike = ScanBike(bikes[1])
    /\ req["w1"].cacheOps = << <<"Get", Bike1Key>>, <<"Set", Bike1Key>> >>
    /\ req["w1"].cacheFailed
    /\ Bike1Key \in DOMAIN cache
    /\ cache[Bike1Key].data = UndecodableBike

(***************************************************************************)
(* DeleteComponent: load, delete, invalidate.                               *)
(***************************************************************************)
DeleteComponentCallOrders ==
    {<<>>, <<"GetComponentByID">>, <<"GetComponentByID", "DeleteComponent">>}

Outcome(err, bike, component, list, bikeTable, compTable) ==
    [err |-> err,
     bike |-> IF err = "" THEN bike ELSE ZeroBike,
     component |-> IF err = "" THEN component ELSE ZeroComponent,
     list |-> IF err = "" THEN list ELSE {},
     bikes |-> bikeTable, components |-> compTable]

CacheSteps == InvalSteps \cup {"GetBikeByID", "GetBikeByID.set"}

\* the results the storage step of r may have without any cache: parse or
\* validate, then the repository call
Uncached(r) ==
    LET parsed == UUIDParse(r.idstr)
        id == parsed.uuid
        same(err) == {Outcome(err, r.bike, r.component, r.list, bikes, components)}
    IN  CASE r.pc = "GetBikeByID.repo" ->
               LET res == BikeRepoGetBikeByID(id, bikes)
               IN  {Outcome(res.err, res.bike, r.component, r.list, bikes, components)}
          [] r.pc = "CreateBike" ->
               IF ~ValidateBike(r.bike) THEN same("validation error")
               ELSE {LET res == BikeRepoCreateBike([r.bike EXCEPT !.bike_id = i],
                                                   bikes, clock)
                     IN  Outcome(res.err, res.bike, r.component, r.list,
                                 res.bikes, components) :
                     i \in IF r.bike.bike_id = NilUUID THEN BikeIds \ issued.bikes
                           ELSE {r.bike.bike_id}}
          [] r.pc = "UpdateBike" ->
               IF ~ValidateBike(r.bike) THEN same("validation error")
               ELSE LET res == BikeRepoUpdateBike(r.bike, bikes, clock)
                    IN  {Outcome(res.err, res.bike, r.component, r.list,
                                 res.bikes, components)}
          [] r.pc = "DeleteBike" ->
               IF parsed.err THEN same("invalid bike ID")
               ELSE LET res == BikeRepoDeleteBike(id, bikes, components)
                    IN  {Outcome(res.err, r.bike, r.component, r.list,
                                 res.bikes, res.components)}
          [] r.pc = "GetBikesByUserID" ->
               IF parsed.err THEN same("invalid user ID")
               ELSE {Outcome("", r.bike, r.component,
                             BikeRepoGetBikesByUserID(id, bikes), bikes, components)}
          [] r.pc = "GetBikeWithComponents" ->
               IF parsed.err THEN same("invalid bike ID")
               ELSE LET res == BikeRepoGetBikeByID(id, bikes)
                    IN  {Outcome(res.err, res.bike, r.component, r.list,
                                 bikes, components)}
          [] r.pc = "GetBikeWithComponents.components" ->
               {Outcome("", [r.bike EXCEPT !.components = l], r.component, r.list,
                        bikes, components) :
                  l \in {<<>>, OrderByInstalledAtDesc(
                                   ComponentRepoGetComponentsByBikeID(id, components))}}
          [] r.pc = "CreateComponent" ->
               IF ~ValidateComponent(r.component) THEN same("validation error")
               ELSE {LET res == ComponentRepoCreateComponent(
                                    [r.component EXCEPT !.id = i], components, bikes, clock)
                     IN  Outcome(res.err, r.bike, res.component, r.list,
                                 bikes, res.components) :
                     i \in IF r.component.id = NilUUID
                           THEN ComponentIds \ issued.components
                           ELSE {r.component.id}}
          [] r.pc = "GetComponentByID" ->
               IF parsed.err THEN same("invalid component ID")
               ELSE LET res == ComponentRepoGetComponentByID(id, components)
                    IN  {Outcome(res.err, r.bike, res.component, r.list,
                                 bikes, components)}
          [] r.pc = "UpdateComponent" ->
               IF ~ValidateComponent(r.component) THEN same("validation error")
               ELSE LET res == ComponentRepoUpdateComponent(r.component, components, clock)
                    IN  {Outcome(res.err, r.bike, res.component, r.list,
                                 bikes, res.components)}
          [] r.pc = "DeleteComponent" ->
               IF parsed.err THEN same("invalid component ID")
               ELSE LET res == ComponentRepoGetComponentByID(id, components)
                    IN  {Outcome(res.err, r.bike, res.component, r.list,
                                 bikes, components)}
          [] r.pc = "DeleteComponent.repo" ->
               LET res == ComponentRepoDeleteComponent(id, components)
               IN  {Outcome(res.err, r.bike, r.component, r.list,
                            bikes, res.components)}
          [] OTHER -> {}

\* C13: with every cache call failing, each service operation returns what it
\* returns with no cache at all and has the same effect on storage: a step
\* that calls storage has a result and leaves tables that the cache-less
\* operation can have, and a step that calls the cache changes neither the
\* tables nor the result, puts no error into the call and lets it go on.
CacheDownIsNoCache ==
    [][\A w \in Workers :
         LET r == req[w]
             q == req'[w]
             actual == Outcome(q.err, q.bike, q.component, q.list, bikes', components')
         IN  /\ (q # r /\ Uncached(r) # {})
                => /\ actual \in Uncached(r)
                   /\ actual.err # "" => q.pc = "done"
                   /\ q.cacheOps = r.cacheOps
             /\ (q # r /\ r.pc \in CacheSteps)
                => IF r.pc = "GetBikeByID" /\ UUIDParse(r.idstr).err
                   THEN /\ q.pc = "done" /\ q.err = "invalid bike ID"
                        /\ UNCHANGED <<bikes, components>>
                   ELSE /\ q.cacheFailed
                        /\ actual = Outcome("", r.bike, r.component, r.list,
                                            bikes, components)
                        /\ q.repoCalls = r.repoCalls
                        /\ q.pc = IF r.pc = "GetBikeByID" THEN "GetBikeByID.repo"
                                  ELSE "done"]_vars

\* an UpdateBike wrote mileage 750 and returned without error although its
\* invalidation failed: the entry the cache held at the start is still there
UpdateSucceededWithCacheDown ==
    /\ Returned("w1", "UpdateBike")
    /\ req["w1"].err = "" /\ req["w1"].cacheFailed
    /\ req["w1"].cacheOps = << <<"Delete", Bike1Key>> >>
    /\ 1 \in DOMAIN bikes /\ bikes[1].mileage = 750
    /\ Bike1Key \in DOMAIN cache

(***************************************************************************)
(* What CreateBike and UpdateBike let into the bikes table.                 *)
(***************************************************************************)
\* C17: CreateBike validates its input: a nil owner, a type outside
\* {bmx, mtb, road} or a negative mileage is rejected with the validation
\* error before any storage call, and nothing is persisted.
CreateBikeValidatesInput ==
    [][\A w \in Workers :
         LET r == req[w]
             q == req'[w]
         IN  (/\ r.pc = "CreateBike" /\ q # r
              /\ \/ r.bike.user_id = NilUUID
                 \/ r.bike.type \notin BikeTypes
                 \/ r.bike.mileage < 0)
             => /\ q.err = "validation error"
                /\ q.repoCalls = <<>>
                /\ bikes' = bikes]_vars

\* C18: CreateBike with a user_id that references no existing user fails with
\* the error "user does not exist" and persists no bike.
CreateBikeOfUnknownUserFails ==
    [][\A w \in Workers :
         LET r == req[w]
             q == req'[w]
         IN  (/\ r.pc = "CreateBike" /\ q # r
              /\ r.bike.user_id \notin Users \cup {NilUUID}
              /\ r.bike.type \in BikeTypes)
             => /\ q.err = "user does not exist"
                /\ bikes' = bikes]_vars

\* C19: after any sequence of CreateBike and UpdateBike, every stored bike
\* has a mileage of at least 0.
StoredMileageIsNotNegative == \A b \in DOMAIN bikes : bikes[b].mileage >= 0

(***************************************************************************)
(* Ranges of the stored values.                                             *)
(***************************************************************************)
StoredValuesInRange ==
    /\ \A b \in DOMAIN bikes : bikes[b].type \in BikeTypes
    /\ \A c \in DOMAIN components :
          /\ components[c].name \in ComponentNames
          /\ components[c].installed_mileage >= 0
          /\ components[c].max_mileage >= MaxMileageMin
          /\ components[c].max_mileage <= MaxMileageMax

\* the create or update that r is about to make would store a value out of
\* range; an update keeps the stored value where its input is unset
WouldBreakRange(r) ==
    CASE r.pc = "CreateBike" -> r.bike.type \notin BikeTypes
      [] r.pc = "UpdateBike" -> r.bike.type \notin BikeTypes \cup {""}
      [] r.pc = "CreateComponent" ->
           \/ r.component.name \notin ComponentNames
           \/ r.component.installed_mileage < 0
           \/ r.component.max_mileage < MaxMileageMin
           \/ r.component.max_mileage > MaxMileageMax
      [] r.pc = "UpdateComponent" ->
           \/ r.component.name \notin ComponentNames \cup {""}
           \/ r.component.installed_mileage < 0
           \/ r.component.max_mileage < 0
           \/ r.component.max_mileage > MaxMileageMax
      [] OTHER -> FALSE

CreateReturnsIdentityAndTimestamps ==
    [][\A w \in Workers :
         LET r == req[w]
             q == req'[w]
         IN  /\ (r.pc = "CreateBike" /\ q # r /\ q.err = "")
                => LET id == q.bike.bike_id
                   IN  /\ id # NilUUID
                       /\ r.bike.bike_id = NilUUID => id \notin issued.bikes
                       /\ r.bike.bike_id # NilUUID => id = r.bike.bike_id
                       /\ id \in DOMAIN bikes' /\ id \notin DOMAIN bikes
                       /\ q.bike.created_at = bikes'[id].created_at
                       /\ q.bike.updated_at = bikes'[id].updated_at
                       /\ q.bike.created_at = clock
                       /\ q.bike = [r.bike EXCEPT !.bike_id = id,
                                                  !.created_at = clock,
                                                  !.updated_at = clock]
             /\ (r.pc = "CreateComponent" /\ q # r /\ q.err = "")
                => LET id == q.component.id
                   IN  /\ id # NilUUID
                       /\ r.component.id = NilUUID => id \notin issued.components
                       /\ r.component.id # NilUUID => id = r.component.id
                       /\ id \in DOMAIN components' /\ id \notin DOMAIN components
                       /\ q.component.created_at = components'[id].created_at
                       /\ q.component.updated_at = components'[id].updated_at
                       /\ q.component = [r.component EXCEPT !.id = id,
                                                            !.created_at = clock,
                                                            !.updated_at = clock]
             /\ (r.pc = "CreateComponent.inval" /\ q # r)
                => q.pc = "done" /\ q.err = "" /\ q.component = r.component]_vars

\* a component created on a bike that was itself just created was returned
\* with a non-nil identity and the timestamps of its stored row
CreatedBikeThenComponent ==
    /\ Returned("w1", "CreateComponent")
    /\ req["w1"].err = ""
    /\ req["w1"].component.id = 2 /\ req["w1"].component.bike_id = 2
    /\ 2 \in DOMAIN components /\ 2 \in DOMAIN bikes
    /\ req["w1"].component.created_at = components[2].created_at
    /\ components[2].created_at > bikes[2].created_at

(***************************************************************************)
(* Who touches the cache.                                                   *)
(***************************************************************************)
UncachedOperations == {"CreateBike", "GetBikesByUserID", "GetBikeWithComponents"}

\* the keys whose entry this step wrote: new in the cache, or changed
WrittenKeys == {k \in DOMAIN cache' : k \notin DOMAIN cache \/ cache'[k] # cache[k]}

\* C22: GetBikeByID is the only operation that writes a cache entry: an entry
\* appears or changes only in the Set of a GetBikeByID, under that call's key.
\* CreateBike, GetBikesByUserID and GetBikeWithComponents make no cache call
\* at all, so after a CreateBike that generated the identity the cache holds
\* no entry for the new bike.
OnlyGetBikeByIDFillsCache ==
    [][\A w \in Workers :
         LET r == req[w]
             q == req'[w]
         IN  /\ (q # r /\ r.pc \notin {"idle", "done"})
                => /\ WrittenKeys # {}
                      => /\ r.op = "GetBikeByID" /\ r.pc = "GetBikeByID.set"
                         /\ WrittenKeys = {CacheKey(r.idstr)}
                   /\ (\E i \in 1..Len(q.cacheOps) : q.cacheOps[i][1] = "Set")
                      => q.op = "GetBikeByID"
             /\ (q # r /\ r.op \in UncachedOperations /\ r.pc \notin {"idle", "done"})
                => /\ q.cacheOps = <<>>
                   /\ cache' = cache
             /\ (/\ q # r /\ r.pc = "CreateBike" /\ q.err = ""
                 /\ r.bike.bike_id = NilUUID)
                => \A k \in DOMAIN cache' : k[3] # q.bike.bike_id]_vars

\* with bike 1 in the cache, a CreateBike stored bike 2 and made no cache
\* call: the cache holds bike 1's entry and none for bike 2
CreatedBikeIsNotCached ==
    /\ Returned("w1", "CreateBike")
    /\ req["w1"].err = "" /\ req["w1"].cacheOps = <<>>
    /\ req["w1"].bike.bike_id = 2 /\ 2 \in DOMAIN bikes
    /\ DOMAIN cache = {Bike1Key}

(***************************************************************************)
(* GetBikeWithComponents.                                                   *)
(***************************************************************************)
\* C23: GetBikeWithComponents fails only when the id is malformed or the bike
\* lookup fails.  For a stored bike it returns the bike without error: with
\* its components in order, or with an empty component list when the bike has
\* none or when the component lookup fails.
GetBikeWithComponentsToleratesComponents ==
    [][\A w \in Workers :
         LET r == req[w]
             q == req'[w]
             id == UUIDParse(r.idstr).uuid
             rows == {components[c] : c \in CascadeOf(id, components)}
         IN  /\ (r.pc = "GetBikeWithComponents" /\ q # r)
                => IF UUIDParse(r.idstr).err
                   THEN q.pc = "done" /\ q.err = "invalid bike ID"
                   ELSE IF id \notin DOMAIN bikes
                   THEN q.pc = "done" /\ q.err = "bike not found"
                   ELSE /\ q.pc = "GetBikeWithComponents.components"
                        /\ q.err = "" /\ q.bike = ScanBike(bikes[id])
             /\ (r.pc = "GetBikeWithComponents.components" /\ q # r)
                => /\ q.pc = "done" /\ q.err = ""
                   /\ \/ q.bike = [r.bike EXCEPT !.components = <<>>]
                      \/ q.bike = [r.bike EXCEPT
                                     !.components = OrderByInstalledAtDesc(rows)]
                   /\ rows = {} => q.bike.components = <<>>]_vars

\* a GetBikeWithComponents whose component lookup failed returned bike 1
\* without error and without components, while component 1 of it is stored
ComponentLookupFailureWasTolerated ==
    /\ Returned("w1", "GetBikeWithComponents")
    /\ req["w1"].err = ""
    /\ 1 \in DOMAIN bikes /\ req["w1"].bike.bike_id = 1
    /\ req["w1"].bike.components = <<>>
    /\ 1 \in DOMAIN components /\ components[1].bike_id = 1

(***************************************************************************)
(* Concurrent updates of one bike.                                          *)
(***************************************************************************)
\* worker w has executed the UPDATE of its UpdateBike
Written(w) ==
    /\ req[w].op = "UpdateBike" /\ req[w].err = ""
    /\ req[w].pc \in {"UpdateBike.inval", "done"}

\* C24: when two concurrent UpdateBike calls on bike 1 have both executed
\* their UPDATE, the stored row is the second merge applied to the result of
\* the first, in the order of the statements: a field both inputs set holds
\* the later writer's value, a field only one input set holds that value, a
\* field neither set holds the value stored before.
ConcurrentUpdatesApplyInOrder ==
    \A first, second \in Workers :
        (/\ nreq = 2 /\ Written(first) /\ Written(second)
         /\ req[first].bike.updated_at < req[second].bike.updated_at)
        => LET in1 == req[first].bodyBike
               in2 == req[second].bodyBike
               mid == BikeRow(req[first].bike)
           IN  /\ Merged(in1, ZeroBike, Bike1, mid, BikeMergeFields)
               /\ Merged(in2, ZeroBike, mid, bikes[1], BikeMergeFields)
               /\ BikeRow(req[second].bike) = bikes[1]
               /\ \A f \in BikeMergeFields :
                     bikes[1][f] = IF in2[f] # ZeroBike[f] THEN in2[f]
                                   ELSE IF in1[f] # ZeroBike[f] THEN in1[f]
                                   ELSE Bike1[f]

\* w1 set the mileage, then w2 set the type and returned while w1 had not yet
\* invalidated: the stored row has w1's mileage and w2's type
NeitherUpdateWasLost ==
    /\ nreq = 2
    /\ req["w1"].op = "UpdateBike" /\ req["w1"].pc = "UpdateBike.inval"
    /\ Returned("w2", "UpdateBike") /\ req["w2"].err = ""
    /\ req["w1"].bodyBike.mileage = 750 /\ req["w1"].bodyBike.type = ""
    /\ req["w2"].bodyBike.type = "road" /\ req["w2"].bodyBike.mileage = 0
    /\ bikes[1].mileage = 750 /\ bikes[1].type = "road"

(***************************************************************************)
(* Derived values of a component.                                           *)
(***************************************************************************)
\* C25: for a component and a bike mileage m, CurrentMileage is
\* m - installed_mileage and NeedsReplacement holds exactly when
\* m - installed_mileage >= max_mileage; computing them changes neither the
\* component nor the tables.
DerivedValuesAreComputedNotStored ==
    /\ [](\A w \in Workers :
            (req[w].op = "NeedsReplacement" /\ req[w].pc = "done")
            => LET c == req[w].component
                   m == req[w].bike.mileage
               IN  /\ req[w].derived.current_mileage = m - c.installed_mileage
                   /\ req[w].derived.needs_replacement
                        <=> (m - c.installed_mileage >= c.max_mileage)
                   /\ c.id \in DOMAIN components /\ components[c.id] = c)
    /\ [][\A w \in Workers :
            (req'[w] # req[w] /\ req'[w].op = "NeedsReplacement")
            => UNCHANGED <<bikes, components, cache>>]_vars

\* at the point of replacement exactly: installed at 100, good for 400, bike
\* mileage 500
ComponentDueExactlyAtMax ==
    /\ req["w1"].op = "NeedsReplacement" /\ req["w1"].pc = "done"
    /\ req["w1"].component.installed_mileage = 100
    /\ req["w1"].component.max_mileage = 400
    /\ req["w1"].bike.mileage = 500
    /\ req["w1"].derived = [current_mileage |-> 400, needs_replacement |-> TRUE]
    /\ components[1] = req["w1"].component

(***************************************************************************)
(* The scenario of the zero-valued update.                                  *)
(***************************************************************************)
\* C26: an UpdateBike that carries mileage 0 or year 0 for a stored bike
\* succeeds and leaves that column as stored, so no update sets mileage or
\* year to 0 and a bike created with mileage 500 keeps it; a component on a
\* bike of mileage 500, installed at 100 and good for 400, has current
\* mileage 400 and needs replacement.
ZeroUpdateKeepsMileage ==
    /\ [](\A w \in Workers :
            (/\ req[w].op = "NeedsReplacement" /\ req[w].pc = "done"
             /\ req[w].bike.mileage = 500
             /\ req[w].component.installed_mileage = 100
             /\ req[w].component.max_mileage = 400)
            => req[w].derived = [current_mileage |-> 400, needs_replacement |-> TRUE])
    /\ [][\A w \in Workers :
            LET r == req[w]
                q == req'[w]
                id == r.bike.bike_id
            IN  (r.pc = "UpdateBike" /\ q # r /\ id \in DOMAIN bikes)
                => /\ q.err = ""
                   /\ r.bike.mileage = 0 => bikes'[id].mileage = bikes[id].mileage
                   /\ r.bike.year = 0 => bikes'[id].year = bikes[id].year
                   /\ bikes[id].mileage # 0 => bikes'[id].mileage # 0
                   /\ bikes[id].year # 0 => bikes'[id].year # 0]_vars

\* the scenario ran to its end: bike 2 created, updated with mileage 0 and
\* year 0 and still at 500, a component created on it, derived values 400
\* and due
ScenarioRanToTheEnd ==
    /\ nreq = 4
    /\ req["w1"].op = "NeedsReplacement" /\ req["w1"].pc = "done"
    /\ req["w1"].component.bike_id = 2
    /\ 2 \in DOMAIN bikes
    /\ bikes[2].updated_at > bikes[2].created_at
    /\ bikes[2].mileage = 500 /\ bikes[2].year = 2022 /\ bikes[2].type = "mtb"
    /\ req["w1"].derived = [current_mileage |-> 400, needs_replacement |-> TRUE]

(***************************************************************************)
(* The RPC GetBikes.                                                        *)
(***************************************************************************)
\* the bikes of table bikeTable that user u owns
OwnedBy(u, bikeTable) == {b \in DOMAIN bikeTable : bikeTable[b].user_id = u}

\* C27: the RPC GetBikes returns no error to its caller; the service call
\* fails only for a malformed user id or a failed query, and then the reply
\* is the empty list; otherwise the reply has one entry per bike the
\* requested user owns, with that bike's id, model and mileage.
GetBikesNeverFails ==
    [][\A w \in Workers :
        LET r == req[w]
            q == req'[w]
            parsed == UUIDParse(r.idstr)
            owned == OwnedBy(parsed.uuid, bikes)
        IN  (r.handler = "GetBikes" /\ r.pc = "GetBikesByUserID" /\ q # r)
            => /\ q.pc = "done"
               /\ q.reply.err = ""
               /\ q.err \in {"", "invalid user ID", "query failed"}
               /\ parsed.err => q.err = "invalid user ID"
               /\ q.err = "invalid user ID" => parsed.err
               /\ q.err # "" => q.reply.bikes = {}
               /\ q.err = "" =>
                    /\ Cardinality(q.reply.bikes) = Cardinality(owned)
                    /\ q.reply.bikes =
                         {[bike_id |-> UUIDString(b), model |-> bikes[b].model,
                           mileage |-> bikes[b].mileage] : b \in owned}]_vars

\* user 1 owns two bikes, the query of GetBikes for user 1 failed, and the
\* reply is the empty list without an error
GetBikesRepliedToAFailedQuery ==
    /\ nreq = 3
    /\ req["w1"].handler = "GetBikes" /\ req["w1"].pc = "done"
    /\ req["w1"].idstr = UUIDString(1)
    /\ req["w1"].err = "query failed"
    /\ req["w1"].reply = [bikes |-> {}, err |-> ""]
    /\ OwnedBy(1, bikes) = {1, 2}

(***************************************************************************)
(* GetBikeWithUser and the user service.                                    *)
(***************************************************************************)
\* C28: GetBikeWithUser, asked by the owner or an admin for a bike that is
\* stored, goes on from its lookup to the user service; whatever that call
\* returns, the answer is 200 with the data of the bike the lookup
\* returned, with the user's details only when the call succeeded.
GetBikeWithUserToleratesUserService ==
    [][\A w \in Workers :
        LET r == req[w]
            q == req'[w]
            id == UUIDParse(r.pathId).uuid
        IN  (r.handler = "GetBikeWithUser" /\ q # r /\ r.pc \notin {"idle", "done"}) =>
              /\ (/\ r.pc # "GetUsersID"
                  /\ q.pc \in {"done", "GetUsersID"}
                  /\ id \in DOMAIN bikes
                  /\ ~Denied(r.payload, bikes[id]))
                 => /\ q.pc = "GetUsersID"
                    /\ q.err = ""
                    /\ q.bike.bike_id = id
                    /\ q.bike.user_id = bikes[id].user_id
              /\ r.pc = "GetUsersID"
                 => /\ q.pc = "done"
                    /\ q.status = StatusOK
                    /\ q.err = ""
                    /\ q.bike = r.bike
                    /\ q.userInfo \in BOOLEAN]_vars

\* the owner asked for bike 1 with its user, the user service failed, and
\* the answer was 200 with the bike and without the user's details
BikeAnsweredWithoutItsUser ==
    \E w \in Workers :
        /\ req[w].handler = "GetBikeWithUser" /\ req[w].pc = "done"
        /\ req[w].status = StatusOK
        /\ ~req[w].userInfo
        /\ req[w].payload.role # Admin
        /\ req[w].bike.bike_id = 1
        /\ 1 \in DOMAIN bikes /\ req[w].bike = ScanBike(bikes[1])

(***************************************************************************)
(* The HTTP update of a component.                                          *)
(***************************************************************************)
\* C29: PUT /components/{id} for a stored component, sent by the owner of
\* its bike or an admin with a body that binds, is answered 200 with the
\* updated component, and the stored component carries the body's fields.
HttpUpdateComponentSucceeds ==
    [][\A w \in Workers :
        LET r == req[w]
            q == req'[w]
            id == UUIDParse(r.pathId).uuid
        IN  (/\ r.handler = "UpdateComponent" /\ r.hpc = "mutate"
             /\ r.pc = "UpdateComponent" /\ q.pc = "done"
             /\ id \in DOMAIN components)
            => /\ q.status = StatusOK
               /\ id \in DOMAIN components'
               /\ components'[id].name = r.bodyComponent.name
               /\ components'[id].installed_mileage = r.bodyComponent.installed_mileage
               /\ components'[id].max_mileage = r.bodyComponent.max_mileage
               /\ q.component.id = id
               /\ q.component.name = components'[id].name
               /\ q.component.max_mileage = components'[id].max_mileage]_vars

(***************************************************************************)
(* Requests that address a missing entity.                                  *)
(***************************************************************************)
\* C30: an authenticated request whose handler reaches its mutation while
\* the bike (UpdateBike, DeleteBike) or the component (DeleteComponent) it
\* addresses is not stored, because a concurrent request deleted it after
\* the lookup or because the lookup was served by a stale cache entry, is
\* answered 404.
MissingEntityIsNotFound ==
    [][\A w \in Workers :
        LET r == req[w]
            q == req'[w]
            id == UUIDParse(r.pathId).uuid
            missing == IF r.handler = "DeleteComponent"
                       THEN id \notin DOMAIN components
                       ELSE id \notin DOMAIN bikes
        IN  (/\ r.handler \in {"UpdateBike", "DeleteBike", "DeleteComponent"}
             /\ r.hpc = "mutate"
             /\ r.pc = Entry(r.handler) /\ q # r
             /\ missing)
            => q.pc = "done" /\ q.status = StatusNotFound]_vars

(***************************************************************************)
(* Malformed path ids.                                                      *)
(***************************************************************************)
\* the handlers that take an id from the path
PathIdHandlers ==
    {"GetBike", "UpdateBike", "DeleteBike", "GetBikeWithComponents", "GetBikeWithUser",
     "GetComponent", "UpdateComponent", "DeleteComponent"}

\* C31: an authenticated request whose path id is not a well-formed
\* identifier is answered 400.
MalformedPathIdIsBadRequest ==
    \A w \in Workers :
        (/\ req[w].handler \in PathIdHandlers
         /\ req[w].pc = "done"
         /\ req[w].payload.exists
         /\ UUIDParse(req[w].pathId).err)
        => req[w].status = StatusBadRequest

(***************************************************************************)
(* Creations with a mileage of 0.                                           *)
(***************************************************************************)
\* C32: a create-component request by the owner of a stored bike whose body
\* has installed_mileage 0 and is otherwise valid, and a create-bike request
\* whose body has mileage 0 and is otherwise valid, are answered 201 and the
\* entity is stored with the value 0.
ZeroMileageIsAccepted ==
    \A w \in Workers :
        LET r == req[w]
            bikeId == UUIDParse(r.bodyBikeId)
        IN  /\ (/\ r.handler = "CreateComponent" /\ r.pc = "done"
                /\ r.payload.exists /\ r.bodyJson
                /\ ~bikeId.err /\ bikeId.uuid \in DOMAIN bikes
                /\ ~Denied(r.payload, bikes[bikeId.uuid])
                /\ r.bodyComponent.name \in ComponentNames
                /\ r.bodyComponent.max_mileage >= MaxMileageMin
                /\ r.bodyComponent.max_mileage <= MaxMileageMax
                /\ r.bodyComponent.installed_mileage = 0)
               => /\ r.status = StatusCreated
                  /\ r.component.id \in DOMAIN components
                  /\ components[r.component.id].installed_mileage = 0
            /\ (/\ r.handler = "CreateBike" /\ r.pc = "done"
                /\ r.payload.exists /\ r.bodyJson
                /\ r.bodyBike.model # "" /\ r.bodyBike.type \in BikeTypes
                /\ r.bodyBike.mileage = 0)
               => /\ r.status = StatusCreated
                  /\ r.bike.bike_id \in DOMAIN bikes
                  /\ bikes[r.bike.bike_id].mileage = 0

(***************************************************************************)
(* What an update leaves alone.                                             *)
(***************************************************************************)
\* C33: from its creation to its deletion a stored bike keeps its bike_id,
\* user_id and created_at and a stored component its id, bike_id and
\* created_at, whatever the input of an update carries in those fields.
OwnerAndParentAreFixed ==
    [][/\ \A b \in DOMAIN bikes \cap DOMAIN bikes' :
             /\ bikes'[b].bike_id = bikes[b].bike_id
             /\ bikes'[b].user_id = bikes[b].user_id
             /\ bikes'[b].created_at = bikes[b].created_at
       /\ \A c \in DOMAIN components \cap DOMAIN components' :
             /\ components'[c].id = components[c].id
             /\ components'[c].bike_id = components[c].bike_id
             /\ components'[c].created_at = components[c].created_at]_vars

\* component 1 was updated, bike 2 was created, and then bike 1 of user 1
\* was updated by an input naming user 2 and a creation time: the row took
\* the mileage and kept its owner and creation time
UpdateNamedAnotherOwner ==
    /\ nreq = 3
    /\ DOMAIN bikes = {1, 2}
    /\ 1 \in DOMAIN components /\ components[1].max_mileage = 900
    /\ req["w1"].op = "UpdateBike" /\ req["w1"].pc = "done" /\ req["w1"].err = ""
    /\ req["w1"].bodyBike.bike_id = 1
    /\ req["w1"].bodyBike.user_id = 2 /\ req["w1"].bodyBike.created_at = 9
    /\ bikes[1].mileage = 750 /\ bikes[1].user_id = 1 /\ bikes[1].created_at = 1

(***************************************************************************)
(* Refused requests and storage.                                            *)
(***************************************************************************)
\* the repository calls that only read
ReadCalls == {"GetBikeByID", "GetComponentByID", "GetBikesByUserID", "GetComponentsByBikeID"}

\* the request ended in 401, in 403, or in the 404 of a handler's lookup
Refused(r) ==
    /\ r.handler # "" /\ r.pc = "done"
    /\ \/ r.status \in {StatusUnauthorized, StatusForbidden}
       \/ r.status = StatusNotFound /\ r.hpc # "mutate"

\* C34: an HTTP request that ends in 401, 403 or the 404 of its handler's
\* lookup has made only reading repository calls, and the steps it is made
\* of, the handler's entry and its lookups, leave bikes and components as
\* they are.
RefusedRequestLeavesStorage ==
    /\ [](\A w \in Workers :
            Refused(req[w]) =>
                \A i \in 1..Len(req[w].repoCalls) : req[w].repoCalls[i] \in ReadCalls)
    /\ [][\A w \in Workers :
            LET r == req[w]
                q == req'[w]
            IN  (/\ q # r
                 /\ q.handler # ""
                 /\ \/ Free(w)
                    \/ r.op \in {"GetBikeByID", "GetComponentByID"}
                    \/ Refused(q))
                => bikes' = bikes /\ components' = components]_vars

\* a user who does not own bike 1 asked to delete it and was answered 403
\* after the lookup read the bike; bike 1 and its component are stored as at
\* the start
RefusedDeleteLeftTheBike ==
    /\ nreq = 1
    /\ req["w1"].handler = "DeleteBike" /\ req["w1"].status = StatusForbidden
    /\ req["w1"].repoCalls = <<"GetBikeByID">>
    /\ bikes = [b \in {1} |-> Bike1]
    /\ components = [c \in {1} |-> Component1]

(***************************************************************************)
(* Whose bikes the handlers create and list.                                *)
(***************************************************************************)
\* C36: the bike stored by the CreateBike handler has the requester's
\* user_id, for an admin too, and GetMyBikes answers with exactly the stored
\* bikes whose user_id is the requester's.
BikesBelongToTheirRequester ==
    [][\A w \in Workers :
        LET r == req[w]
            q == req'[w]
        IN  /\ (r.handler = "CreateBike" /\ r.pc = "CreateBike" /\ q # r
                /\ q.status = StatusCreated)
               => /\ q.bike.user_id = r.payload.user_id
                  /\ q.bike.bike_id \in DOMAIN bikes' \ DOMAIN bikes
                  /\ bikes'[q.bike.bike_id].user_id = r.payload.user_id
            /\ (r.handler = "GetMyBikes" /\ r.pc = "GetBikesByUserID" /\ q # r)
               => /\ q.status = StatusOK
                  /\ q.list = {ScanBike(bikes[b]) : b \in OwnedBy(r.payload.user_id, bikes)}
                  /\ \A b \in q.list : b.user_id = r.payload.user_id]_vars

\* an admin created a bike and then listed their bikes: the new bike is
\* theirs and the list holds it and not bike 1 of user 1
AdminListedOwnBikesOnly ==
    /\ nreq = 2
    /\ req["w1"].handler = "GetMyBikes" /\ req["w1"].pc = "done"
    /\ req["w1"].payload.role = Admin
    /\ DOMAIN bikes = {1, 2}
    /\ bikes[1].user_id = 1 /\ bikes[2].user_id = req["w1"].payload.user_id
    /\ req["w1"].list = {ScanBike(bikes[2])}

(***************************************************************************)
(* Identities are unique.                                                   *)
(***************************************************************************)
\* C35: every stored bike is the one row of its bike_id and every stored
\* component the one row of its id; a CreateBike or CreateComponent whose
\* identity is in use fails, with the storage's error when the input passes
\* validation, leaves the table as it is and makes no cache call.
IdentitiesAreUnique ==
    /\ [](/\ \A b \in DOMAIN bikes : bikes[b].bike_id = b
          /\ \A c \in DOMAIN components : components[c].id = c)
    /\ [][\A w \in Workers :
            LET r == req[w]
                q == req'[w]
            IN  /\ (r.pc = "CreateBike" /\ q # r /\ r.bike.bike_id \in DOMAIN bikes)
                   => /\ q.pc = "done"
                      /\ q.err \notin {"", "validation error"}
                      /\ bikes' = bikes
                      /\ q.cacheOps = r.cacheOps /\ cache' = cache
                /\ (r.pc = "CreateComponent" /\ q # r
                    /\ r.component.id \in DOMAIN components)
                   => /\ q.pc = "done"
                      /\ q.err # ""
                      /\ ValidateComponent(r.component) => q.err # "validation error"
                      /\ components' = components
                      /\ q.cacheOps = r.cacheOps /\ cache' = cache]_vars

\* a CreateBike under an identity in use was refused by the storage: no
\* bike was added and bike 1 is the row it was at the start
DuplicateCreateBikeWasRefused ==
    /\ req["w1"].op = "CreateBike" /\ req["w1"].pc = "done"
    /\ req["w1"].err = "pq: duplicate key"
    /\ req["w1"].repoCalls = <<"CreateBike">>
    /\ req["w1"].cacheOps = <<>>
    /\ bikes = [b \in {1} |-> Bike1]

(***************************************************************************)
(* Two deletions of the same row.                                           *)
(***************************************************************************)
\* both workers have finished a call of op for the same id, which was stored
\* when each of them arrived
BothDeleted(op, id, stored) ==
    \A w \in Workers :
        /\ req[w].op = op /\ req[w].pc = "done"
        /\ req[w].idstr = UUIDString(id)
        /\ id \in stored[w]

\* C37: when two DeleteComponent calls, or two DeleteBike calls, for the same
\* id both arrived while the row was stored, exactly one of them succeeds,
\* the other fails with not found, and the row is gone; the deleting step
\* removes that row, with the components of a deleted bike, and leaves every
\* other row as it was.
OneOfTwoDeletesSucceeds ==
    /\ [](/\ \A c \in DOMAIN DeletesComponents :
              BothDeleted("DeleteComponent", c,
                          [w \in Workers |-> req[w].arrival.components])
              => /\ \E w \in Workers :
                       /\ req[w].err = ""
                       /\ \A v \in Workers \ {w} : req[v].err = "component not found"
                 /\ c \notin DOMAIN components
          /\ \A b \in DOMAIN DeletesBikes :
              BothDeleted("DeleteBike", b, [w \in Workers |-> req[w].arrival.bikes])
              => /\ \E w \in Workers :
                       /\ req[w].err = ""
                       /\ \A v \in Workers \ {w} : req[v].err = "Bike not found"
                 /\ b \notin DOMAIN bikes)
    /\ [][\A w \in Workers :
            LET r == req[w]
                q == req'[w]
                id == UUIDParse(r.idstr).uuid
            IN  /\ (r.op = "DeleteComponent" /\ q # r /\ r.pc # "done")
                   => /\ bikes' = bikes
                      /\ components' =
                            IF r.pc = "DeleteComponent.repo" /\ q.err = ""
                            THEN Without(components, {id}) ELSE components
                /\ (r.op = "DeleteBike" /\ q # r /\ r.pc # "done")
                   => IF r.pc = "DeleteBike" /\ q.err = ""
                      THEN /\ bikes' = Without(bikes, {id})
                           /\ components' =
                                 Without(components, CascadeOf(id, components))
                      ELSE bikes' = bikes /\ components' = components]_vars

\* both workers loaded component 1 before either deleted it: the first
\* delete succeeded, the second found no row
SecondDeleteFoundNoRow ==
    /\ BothDeleted("DeleteComponent", 1, [w \in Workers |-> req[w].arrival.components])
    /\ \A w \in Workers : "DeleteComponent" \in Elems(req[w].repoCalls)
    /\ req["w1"].err = "component not found" /\ req["w2"].err = ""
    /\ DOMAIN components = {2, 3}

====
